---- MODULE Spec2Model ----
(***************************************************************************)
(* NatsJetStreamBroker (src/lib/broker/BrokerFactory.js, lines 75-487):    *)
(* one broker instance, its stream provisioning, its per-subject durable   *)
(* consumers and consume loops, the shared BehaviorSubject of decoded      *)
(* messages, the listener views and the request/reply round trip.          *)
(*                                                                         *)
(* JavaScript runs each callback to completion: an action of this module   *)
(* is the code between two suspension points (an await, a timer, a socket  *)
(* event), with every synchronous call it makes.                           *)
(***************************************************************************)
EXTENDS Integers, Sequences, FiniteSets, TLC

\* ------------------------------------------------------------- bounds
\* this.maxUnacknowledged: NATSJS_MAX_UNACK_MESSAGES of the process.
maxUnacknowledged == 1
\* Setup tasks (deferred async functions of configMessageListener$) started.
MaxTasks == 2
\* Messages the transport hands to the consume loops in one behaviour.
MaxDeliveries == 2
\* getMessageListener$ calls made in one behaviour.
MaxListeners == 2
\* Direct configMessageListener$ calls made in one behaviour.
MaxConfigCalls == 2
\* send$ and sendAndGetReply$ calls made in one behaviour.
MaxRequests == 2
\* start$ and createStream calls made in one behaviour.
MaxProvisions == 2
\* How deep the objects and arrays of an envelope's data nest.
MaxDataDepth == 1
\* brokerFactory calls, and uses of the brokers they returned.
MaxFactoryCalls == 3
MaxBrokerUses == 2
\* getBusinessRule$ calls, and how far the clock runs.
MaxRuleCalls == 2
MaxClock == 3
\* Rules the metadata query returns.
MaxRules == 2
\* generate calls on one UniqueId: one more than the period of its counter.
MaxGenerated == 65536

\* ------------------------------------------------------------ domains
\* Subjects a caller listens on, and the subjects a stream may hold.
Subjects == {"REQ", "RES"}
StreamSubjects == {"EVT", "REQ", "RES"}
\* Subscription subjects with a wildcard token, and the subjects messages
\* are published on under them.
WildcardSubjects == {"EVT.*"}
PublishSubjects == {"EVT.1", "EVT.2"}
\* Every subject configMessageListener$ is called with.
ListenableSubjects == Subjects \cup WildcardSubjects
\* subject.split('.') for the subjects above.
Tokens(subject) ==
    CASE subject = "EVT.*" -> <<"EVT", "*">>
      [] subject = "EVT.1" -> <<"EVT", "1">>
      [] subject = "EVT.2" -> <<"EVT", "2">>
      [] OTHER -> <<subject>>
\* filter_subject of the consumer: the stream service delivers to it the
\* messages whose subject has the same tokens, `*` standing for any one token.
Matches(filterSubject, subject) ==
    /\ Len(Tokens(filterSubject)) = Len(Tokens(subject))
    /\ \A i \in DOMAIN Tokens(subject) :
          Tokens(filterSubject)[i] \in {"*", Tokens(subject)[i]}
\* The subjects start$ created the stream with.
InitialStreamSubjects == <<"EVT">>
\* The stream names start$ and createStream are called with.
StreamNames == {"EVENTS", "AUDIT"}
\* os.hostname() of this process, and of any other producer.
Self == "self"
Other == "other"
\* Absent field of a decoded object (undefined).
Undefined == "undefined"

\* ------------------------------------------------------------ helpers
Range(s) == {s[i] : i \in DOMAIN s}

\* Array.prototype.includes / indexOf(x) > -1
Includes(s, x) == \E i \in DOMAIN s : s[i] = x

\* Number of occurrences of x in array s.
Occurrences(s, x) == Cardinality({i \in DOMAIN s : s[i] = x})

\* -------------------------------------------------------- wire payloads
\* The bytes of a delivered message, by what JSON.parse makes of them:
\*   "envelope"  an object with an attributes object (what publish$ builds)
\*   "bare"      an object with no attributes field
\*   "primitive" valid JSON that is no object (a number, a string, null)
\*   "invalid"   bytes that are no JSON text
Envelope(senderId, correlationId) ==
    [json |-> "envelope", senderId |-> senderId, correlationId |-> correlationId,
     topCorrelationId |-> Undefined]

\* An envelope of another producer that also carries a top-level correlationId.
TaggedEnvelope(senderId, correlationId, topCorrelationId) ==
    [json |-> "envelope", senderId |-> senderId, correlationId |-> correlationId,
     topCorrelationId |-> topCorrelationId]

BareObject(topCorrelationId) ==
    [json |-> "bare", senderId |-> Undefined, correlationId |-> Undefined,
     topCorrelationId |-> topCorrelationId]

InvalidBytes ==
    [json |-> "invalid", senderId |-> Undefined, correlationId |-> Undefined,
     topCorrelationId |-> Undefined]

PrimitiveJson ==
    [json |-> "primitive", senderId |-> Undefined, correlationId |-> Undefined,
     topCorrelationId |-> Undefined]

Payloads ==
    {Envelope(Other, "c1"), Envelope(Self, "c1"), Envelope(Other, "c2"),
     BareObject(Undefined), InvalidBytes, PrimitiveJson}

\* The payloads that differ for the consume loop alone: an object, a
\* primitive, no JSON.
FlowPayloads == {Envelope(Other, "c1"), InvalidBytes, PrimitiveJson}

\* The payloads that differ for the correlation filter of a wait for "c1":
\* the id under attributes, another id there, the id at top level only, and
\* another id under attributes with the id at top level.
MatchPayloads ==
    {Envelope(Other, "c1"), Envelope(Other, "c2"), BareObject("c1"),
     TaggedEnvelope(Other, "c2", "c1")}

\* The payloads that differ for the filters of a listener view: an envelope
\* of another instance, one of this instance, an object with no attributes.
ViewPayloads == {Envelope(Other, "c1"), Envelope(Self, "c1"), BareObject(Undefined)}

\* new BehaviorSubject(null): the sentinel current value.
NullMessage ==
    [id |-> <<0, 0>>, subject |-> Undefined, shape |-> "null", senderId |-> Undefined,
     correlationId |-> Undefined, topCorrelationId |-> Undefined]

\* JSON.parse(msg.data.toString()) returns (does not throw).
JsonParses(payload) == payload.json # "invalid"

\* parsed.subject = subject succeeds: class bodies are strict code, so the
\* assignment throws a TypeError on null and on every primitive.
SubjectAssignable(payload) == payload.json \in {"envelope", "bare"}

\* parsed, after parsed.subject = subject, for a payload that parses to an object.
Decoded(id, subject, payload) ==
    [id |-> id, subject |-> subject, shape |-> payload.json,
     senderId |-> payload.senderId, correlationId |-> payload.correlationId,
     topCorrelationId |-> payload.topCorrelationId]

\* msg.attributes is an object.
HasAttributes(msg) == msg.shape = "envelope"

\* ------------------------------------------- ensureSubjectInStream$
\* currentSubjects.length === subjects.length &&
\*     currentSubjects.every(sub => subjects.includes(sub))
AreEqual(currentSubjects, subjects) ==
    /\ Len(currentSubjects) = Len(subjects)
    /\ \A i \in DOMAIN currentSubjects : Includes(subjects, currentSubjects[i])

\* subjects.filter(sub => !currentSubjects.includes(sub))
NewSubjects(currentSubjects, subjects) ==
    SelectSeq(subjects, LAMBDA sub : ~Includes(currentSubjects, sub))

\* [...new Set(updatedSubjects)]: first occurrences, in order.
RECURSIVE Unique(_)
Unique(s) ==
    IF s = <<>> THEN <<>>
    ELSE LET front == Unique(SubSeq(s, 1, Len(s) - 1))
         IN  IF Includes(front, s[Len(s)]) THEN front ELSE Append(front, s[Len(s)])

UniqueSubjects(currentSubjects, subjects) ==
    Unique(currentSubjects \o NewSubjects(currentSubjects, subjects))

NeedsUpdateWithoutFastPath(currentSubjects, subjects) ==
    ~AreEqual(currentSubjects, subjects)

\* Neither early return is taken: streams.update is called.
NeedsUpdate(currentSubjects, subjects) ==
    /\ ~AreEqual(currentSubjects, subjects)
    /\ NewSubjects(currentSubjects, subjects) # <<>>

\* ------------------------------------------------ the envelope codec
\* A JavaScript value: a primitive, a Date, a plain object (its properties
\* in insertion order) or an array.
JsValue(kind, text, props, items) ==
    [kind |-> kind, text |-> text, props |-> props, items |-> items]
JsUndefined == JsValue("undefined", "", <<>>, <<>>)
JsNull == JsValue("null", "", <<>>, <<>>)
JsNaN == JsValue("NaN", "", <<>>, <<>>)
JsNumber(text) == JsValue("number", text, <<>>, <<>>)
JsString(text) == JsValue("string", text, <<>>, <<>>)
JsDate(iso) == JsValue("Date", iso, <<>>, <<>>)
JsObject(props) == JsValue("object", "", props, <<>>)
JsArray(items) == JsValue("array", "", <<>>, items)
Prop(key, value) == [key |-> key, value |-> value]

\* `x` when x is neither undefined nor the empty string, else `fallback`
\* (messageId || uuidv4()).
OrElse(x, fallback) == IF x \in {JsUndefined, JsString("")} THEN fallback ELSE x

\* The values a caller passes as `data`, nested up to the given depth.
RECURSIVE JsValues(_)
JsValues(depth) ==
    LET leaves == {JsUndefined, JsNull, JsNaN, JsNumber("1"), JsString("a"),
                   JsDate("2024-01-01T00:00:00.000Z")}
    IN  IF depth = 0 THEN leaves
        ELSE leaves \cup {JsObject(<<Prop("v", x)>>) : x \in JsValues(depth - 1)}
                    \cup {JsArray(<<x>>) : x \in JsValues(depth - 1)}

\* obj[key]: undefined for a property the object does not have.
RECURSIVE Get(_, _)
Get(obj, key) ==
    IF obj.props = <<>> THEN JsUndefined
    ELSE IF obj.props[1].key = key THEN obj.props[1].value
    ELSE Get([obj EXCEPT !.props = Tail(@)], key)

\* The envelope literal of publish$.
BuildEnvelope(uuid, type, data, senderId, correlationId) ==
    JsObject(<<Prop("id", uuid), Prop("type", type), Prop("data", data),
               Prop("attributes", JsObject(<<Prop("senderId", senderId),
                                             Prop("correlationId", correlationId)>>))>>)

\* A JSON text, as the tree of its grammar; no text at all for undefined.
JsonText(kind, text, members, elements) ==
    [kind |-> kind, text |-> text, members |-> members, elements |-> elements]
NoText == JsonText("none", "", <<>>, <<>>)
JsonNull == JsonText("json null", "", <<>>, <<>>)

\* JSON.stringify(x): undefined has no text, so a property holding it is
\* left out and an array element holding it is written as null; NaN is
\* written as null; a Date is written as the string its toJSON returns.
RECURSIVE Stringify(_)
Stringify(x) ==
    CASE x.kind = "undefined" -> NoText
      [] x.kind \in {"null", "NaN"} -> JsonNull
      [] x.kind = "number" -> JsonText("json number", x.text, <<>>, <<>>)
      [] x.kind \in {"string", "Date"} -> JsonText("json string", x.text, <<>>, <<>>)
      [] x.kind = "object" ->
            JsonText("json object", "",
                SelectSeq([i \in DOMAIN x.props |->
                              Prop(x.props[i].key, Stringify(x.props[i].value))],
                          LAMBDA member : member.value # NoText),
                <<>>)
      [] x.kind = "array" ->
            JsonText("json array", "", <<>>,
                [i \in DOMAIN x.items |->
                    IF Stringify(x.items[i]) = NoText THEN JsonNull
                    ELSE Stringify(x.items[i])])

\* JSON.parse(text): the value the text denotes.
RECURSIVE Parse(_)
Parse(json) ==
    CASE json.kind = "json null" -> JsNull
      [] json.kind = "json number" -> JsNumber(json.text)
      [] json.kind = "json string" -> JsString(json.text)
      [] json.kind = "json object" ->
            JsObject([i \in DOMAIN json.members |->
                        Prop(json.members[i].key, Parse(json.members[i].value))])
      [] json.kind = "json array" ->
            JsArray([i \in DOMAIN json.elements |-> Parse(json.elements[i])])

\* parsed.subject = subject on a decoded object.
WithSubject(parsed, subject) ==
    [parsed EXCEPT !.props = Append(@, Prop("subject", JsString(subject)))]

\* ------------------------------------------------- the broker factory
\* The arguments brokerFactory is called with: the three types of the
\* constructor's switch, a type it has no case for, and no argument.
BrokerTypes == {"PUBSUB", "MQTT", "NATS_JETSTREAM", "OTHER", Undefined}
\* process.env.BROKER_TYPE
EnvBrokerType == "MQTT"

\* constructor(brokerType = process.env.BROKER_TYPE)
DefaultedType(brokerType) == IF brokerType = Undefined THEN EnvBrokerType ELSE brokerType

\* The switch has a case that sets this.broker.
HasCase(brokerType) == brokerType \in {"PUBSUB", "MQTT", "NATS_JETSTREAM"}

\* let instance = {}: no key holds a BrokerFactory (0); no object exists.
EmptyFactory ==
    [instance |-> [key \in BrokerTypes |-> 0], objects |-> <<>>, calls |-> <<>>, uses |-> 0]

CachedNever(instance, brokerType) == FALSE

\* instance[brokerType] is truthy: the key holds a BrokerFactory object.
Cached(instance, brokerType) == instance[brokerType] # 0

\* new BrokerFactory(brokerType): this.broker is a new broker of the type,
\* with the fields its constructor sets, or stays undefined when the switch
\* has no case for the type.
NewBrokerFactory(brokerType) ==
    [key |-> brokerType, type |-> DefaultedType(brokerType),
     broker |-> HasCase(DefaultedType(brokerType)),
     unacknowledgedCount |-> 0, usedThrough |-> <<>>]

\* ------------------------------------------------------ the VM factory
\* A version: its dot-separated parts, or a text that is no number.
Version(parts) == [numeric |-> TRUE, parts |-> parts]
NoNumber == [numeric |-> FALSE, parts |-> <<>>]
\* process.versions.node of the running Node.js
NodeVersion == Version(<<18, 20>>)

\* const vmTypes = [Lua53Fengari, NodeJsVM], with getLanguage() and getVersion().
vmTypes ==
    << [class |-> "Lua53Fengari", language |-> "LUA", version |-> Version(<<5, 3>>)],
       [class |-> "NodeJsVM", language |-> "JS", version |-> NodeVersion] >>

\* parseInt(v.toString().split('.')[0]): NaN for a text that is no number.
Major(v) == IF v.numeric THEN [nan |-> FALSE, n |-> v.parts[1]] ELSE [nan |-> TRUE, n |-> 0]

AtMost(a, b) == ~a.nan /\ ~b.nan /\ a.n <= b.n

\* a >= b on numbers: false when either is NaN.
AtLeast(a, b) == ~a.nan /\ ~b.nan /\ a.n >= b.n

\* vmMap[language]: the VM classes of the language, in vmTypes order.
vmSupportedVersion(language) == SelectSeq(vmTypes, LAMBDA v : v.language = language)

\* seq without its i-th element.
RemoveAt(seq, i) == SubSeq(seq, 1, i - 1) \o SubSeq(seq, i + 1, Len(seq))

\* .sort((a, b) => major(b) - major(a)): the largest major version first,
\* equal ones in their order.
RECURSIVE SortByMajorDescending(_)
SortByMajorDescending(vms) ==
    IF vms = <<>> THEN <<>>
    ELSE LET top == CHOOSE i \in DOMAIN vms :
                        \A j \in DOMAIN vms :
                            \/ Major(vms[i].version).n > Major(vms[j].version).n
                            \/ (Major(vms[i].version).n = Major(vms[j].version).n /\ i <= j)
         IN  <<vms[top]>> \o SortByMajorDescending(RemoveAt(vms, top))

\* The languageVersion argument: a version, a text that is no number, or null.
Given(version) == [null |-> FALSE, value |-> version]
NullVersion == [null |-> TRUE, value |-> NoNumber]

\* VmFactory.createVm(language, languageVersion): the class it instantiates,
\* or the error it throws. A null languageVersion makes .toString() throw.
createVm(language, languageVersion) ==
    LET supported == vmSupportedVersion(language)
        fitting == SelectSeq(SortByMajorDescending(supported),
                       LAMBDA v : AtLeast(Major(v.version), Major(languageVersion.value)))
    IN  IF supported = <<>> THEN [ok |-> FALSE, error |-> "Unsupported language"]
        ELSE IF languageVersion.null THEN [ok |-> FALSE, error |-> "TypeError"]
        ELSE IF fitting = <<>> THEN [ok |-> FALSE, error |-> "Unsupported version"]
        ELSE [ok |-> TRUE, vm |-> fitting[1]]

\* Rule sources: the global functions a source defines when it is loaded,
\* those of them that throw when called, and whether it loads at all.
RuleSources ==
    { [name |-> "hello", loads |-> TRUE, functions |-> {"exec"}, throwing |-> {}],
      [name |-> "two", loads |-> TRUE, functions |-> {"exec", "other"},
       throwing |-> {"other"}],
      [name |-> "broken", loads |-> FALSE, functions |-> {}, throwing |-> {}] }

\* What the function `functionName` of `source` returns for `args`.
ReturnValue(source, functionName, args) ==
    [source |-> source.name, function |-> functionName, args |-> args]

NoValue == [source |-> "", function |-> "", args |-> <<>>]
NoVm == [class |-> "", language |-> "", version |-> NoNumber]

NoBuild ==
    [pc |-> "idle", language |-> "", languageVersion |-> NullVersion, source |-> "",
     vm |-> NoVm, error |-> "", functionName |-> "", args |-> <<>>, result |-> NoValue]

\* ------------------------------------------- the business-rule cache
\* BUSINESS_RULE_CACHE_TTL and the instant the day ends, in clock ticks.
CacheTtl == 2
EndOfDay == 3

\* The arguments of getBusinessRule$: rule types, organization ids and
\* company ids ('' is falsy, as null is).
RuleTypes == {"T", "T_X"}
OrganizationIds == {"O", "X_O"}
CompanyIds == {"", "C"}

\* companyId || 'ANY'
CompanyOrAny(companyId) == IF companyId = "" THEN "ANY" ELSE companyId

\* const brKey = `${type}_${organizationId}_${companyId || 'ANY'}`
BrKey(type, organizationId, companyId) ==
    type \o "_" \o organizationId \o "_" \o CompanyOrAny(companyId)

\* BusinessRuleEngine.millisecondsToEndOfDay()
MillisecondsToEndOfDay(now) == EndOfDay - now

\* Math.min(a, b)
Min(a, b) == IF a <= b THEN a ELSE b

\* The unexpired entries of the cache under brKey (at most one):
\* cache[brKey] && cache[brKey].__expirationTs > Date.now()
CacheHits(cache, brKey, now) ==
    {entry \in cache : entry.brKey = brKey /\ entry.expirationTs > now}

\* this.loadedBusinessRulesCache = {}; no rule built, no call made.
NewEngine == [cache |-> {}, rules |-> <<>>, calls |-> <<>>, now |-> 0]

\* ------------------------------------------------------------ UniqueId
\* A time argument, thousands * 1000 + units: seconds or milliseconds since
\* the epoch.
Time(thousands, units) == [thousands |-> thousands, units |-> units]

\* time > 4294967295
AboveUInt32(time) ==
    time.thousands > 4294967 \/ (time.thousands = 4294967 /\ time.units > 295)

\* if (time > 4294967295) time = Math.floor(time / 1000)
Seconds(time) ==
    IF AboveUInt32(time) THEN Time(time.thousands \div 1000, time.thousands % 1000)
    ELSE time

\* buffer.writeUInt32BE(time, 0): the four bytes of the value, high first.
\* The low byte and the rest are taken from the two parts of the value.
UInt32BE(time) ==
    LET low == 1000 * (time.thousands % 256) + time.units
        rest == 1000 * (time.thousands \div 256) + (low \div 256)
    IN  <<rest \div 65536, (rest \div 256) % 256, rest % 256, low % 256>>

GetIncModulo65536(index) == (index + 1) % 65536

\* (this.index + 1) % 0xffff
GetInc(index) == (index + 1) % 65535

\* The buffer generate fills: the timestamp, processUnique, then
\* (inc >> 8) & 0xff and inc & 0xff.
IdBuffer(time, processUnique, inc) ==
    UInt32BE(Seconds(time)) \o processUnique \o <<(inc \div 256) % 256, inc % 256>>

\* UniqueId.getRange(time, processUnique) as the instance method calls it,
\* with its own processUnique: [min, max].
GetRange(time, processUnique) ==
    <<UInt32BE(Seconds(time)) \o processUnique \o <<0, 0>>,
      UInt32BE(Seconds(time)) \o processUnique \o <<255, 255>>>>

\* What the constructor may draw: randomBytes(2) and
\* Math.floor(Math.random() * 0xffff).
Constructions ==
    {[processUnique |-> <<18, 52>>, index |-> 4660],
     [processUnique |-> <<255, 255>>, index |-> 65534]}

\* The times generate is called with: the largest value taken as seconds,
\* and a time in milliseconds.
GenerateTimes == {Time(4294967, 295), Time(1700000000, 123)}

NoBuffer == <<>>

\* No UniqueId has been constructed.
NoUniqueId ==
    [constructed |-> FALSE, processUnique |-> <<0, 0>>, index |-> 0, generated |-> 0,
     first |-> NoBuffer, last |-> NoBuffer, range |-> <<NoBuffer, NoBuffer>>]

IdleCodec == [pc |-> "idle", envelope |-> JsUndefined, payload |-> NoText,
              parsed |-> JsUndefined]

VARIABLES
    listeningSubjects,    \* this.listeningSubjects, an array
    subscriptionReady,    \* this.subscriptionReady[subject]: the task whose ready$ it holds, 0 when unset
    readyFired,           \* tasks whose ready$ has emitted (ReplaySubject(1))
    unacknowledgedCount,  \* this.unacknowledgedCount
    peakUnacknowledged,   \* history: the largest value unacknowledgedCount ever took
    incomingMessages,     \* current value of this.incomingMessages$
    tasks,                \* the deferred async setup functions started, in order
    loops,                \* per task: its consume loop, the messages delivered to it and the subjects
                          \* they arrived on, how many it took, and the statements it has executed
    broadcastLog,         \* history: every value given to incomingMessages$.next
    ackLog,               \* history: id of every message acked, in order
    listeners,            \* getMessageListener$ calls and what each view has yielded
    configCalls,          \* direct configMessageListener$ calls made
    streamSubjects,       \* config.subjects of the stream, at the stream service
    requests,             \* send$ and sendAndGetReply$ calls, in order
    connection,           \* this.nc: "null" before start$, "open", "closed" after nc.close()
    verifiedStreams,      \* this.verifiedStreams[name]: "unset", "true" or "false"
    serviceStreams,       \* names of the streams that exist at the stream service
    provisions,           \* start$ and createStream calls, in order
    codec,                \* one envelope on its way: as built, as bytes, as decoded
    factory,              \* the module-level `instance` map of the broker factory, the
                          \* BrokerFactory objects constructed, and the calls made
    build,                \* one buildCustomBusinessRule$ call and the rule it returned
    engine,               \* a BusinessRuleEngine: its loadedBusinessRulesCache, the rules
                          \* it built, its getBusinessRule$ calls, and the clock
    uniqueId              \* a UniqueId: its processUnique and index, and the ids it generated

\* The connection and the stream verification cache with its service.
lifecycleVars == <<connection, verifiedStreams, serviceStreams, provisions>>

\* The libraries beside the broker.
libraryVars == <<codec, factory, build, engine, uniqueId>>

\* Everything the broker object holds, with the services it talks to.
brokerVars == <<listeningSubjects, subscriptionReady, readyFired, unacknowledgedCount,
                peakUnacknowledged, incomingMessages, tasks, loops,
                broadcastLog, ackLog, listeners, configCalls, streamSubjects, requests,
                lifecycleVars>>

vars == <<brokerVars, libraryVars>>

Tasks == 1..MaxTasks
Listeners == 1..MaxListeners
Requests == 1..MaxRequests

\* The subject arrays getMessageListener$ and configMessageListener$ are called with.
ListenRequests ==
    {<<>>} \cup {<<s>> : s \in Subjects} \cup {<<s, t>> : s \in Subjects, t \in Subjects}

\* The `subjects` argument of send$ (undefined is taken as []).
SendSubjects ==
    {<<>>} \cup {<<s>> : s \in StreamSubjects}
           \cup {<<s, t>> : s \in StreamSubjects, t \in StreamSubjects}

\* The subject arrays of the views: no filter, or one subject.
ViewRequests == {<<>>} \cup {<<s>> : s \in Subjects}

IdleListener == [pc |-> "idle", subjects |-> <<>>, ignoreSelfEvents |-> TRUE, received |-> <<>>]

\* The fields the constructor sets, with the connection start$ opens on a
\* stream that is at the service already (start$ returns with the cache
\* untouched then).
InitBroker ==
    /\ listeningSubjects = <<>>
    /\ subscriptionReady = [s \in ListenableSubjects |-> 0]
    /\ readyFired = {}
    /\ unacknowledgedCount = 0
    /\ peakUnacknowledged = 0
    /\ incomingMessages = NullMessage
    /\ tasks = <<>>
    /\ loops = <<>>
    /\ broadcastLog = <<>>
    /\ ackLog = <<>>
    /\ listeners = [c \in Listeners |-> IdleListener]
    /\ configCalls = 0
    /\ streamSubjects = InitialStreamSubjects
    /\ requests = <<>>
    /\ connection = "open"
    /\ verifiedStreams = [name \in StreamNames |-> "unset"]
    /\ serviceStreams = {"EVENTS"}
    /\ provisions = <<>>

\* Nothing has been asked of the libraries.
LibraryIdle ==
    /\ codec = IdleCodec
    /\ factory = EmptyFactory
    /\ build = NoBuild
    /\ engine = NewEngine
    /\ uniqueId = NoUniqueId

Init == InitBroker /\ LibraryIdle

\* ------------------------------------------------------ listener views
ListenerNextKeepingSelf(l, msg) ==
    IF l.pc # "live" \/ msg.shape = "null" THEN l
    ELSE IF l.ignoreSelfEvents /\ ~HasAttributes(msg) THEN [l EXCEPT !.pc = "error"]
    ELSE IF Len(l.subjects) = 0 \/ Includes(l.subjects, msg.subject)
         THEN [l EXCEPT !.received = Append(@, msg)]
    ELSE l

\* The three filters of getMessageListener$, applied to one value of the
\* channel by a live view: the second filter reads msg.attributes.senderId
\* and throws a TypeError when ignoreSelfEvents is set and msg has no
\* attributes; the error ends the view.
ListenerNext(l, msg) ==
    IF l.pc # "live" \/ msg.shape = "null" THEN l
    ELSE IF l.ignoreSelfEvents /\ ~HasAttributes(msg) THEN [l EXCEPT !.pc = "error"]
    ELSE IF l.ignoreSelfEvents /\ msg.senderId = Self THEN l
    ELSE IF Len(l.subjects) = 0 \/ Includes(l.subjects, msg.subject)
         THEN [l EXCEPT !.received = Append(@, msg)]
    ELSE l

\* switchMap(() => this.incomingMessages$.pipe(...)): the view subscribes to
\* the BehaviorSubject, which hands it its current value at once.
ArmListener(l) == ListenerNext([l EXCEPT !.pc = "live"], incomingMessages)

\* ---------------------------------------------------------- reply wait
\* msg?.attributes?.correlationId || msg?.correlationId
EffectiveCorrelationId(msg) ==
    IF msg.correlationId # Undefined THEN msg.correlationId ELSE msg.topCorrelationId

\* The tap callback of getMessageReply$ builds `conditions` before any filter
\* has run: condition 2 reads msg.attributes.senderId unless ignoreSelfEvents
\* is false, which throws a TypeError on the null sentinel and on an object
\* with no attributes.
TapThrows(msg, ignoreSelfEvents) ==
    ignoreSelfEvents /\ (msg.shape = "null" \/ ~HasAttributes(msg))

\* One value of the channel through tap, the three filters, map and first()
\* of a waiting getMessageReply$.
ReplyNext(r, msg) ==
    IF r.pc # "waiting" THEN r
    ELSE IF TapThrows(msg, r.ignoreSelfEvents) THEN [r EXCEPT !.pc = "TypeError"]
    ELSE IF msg.shape = "null" THEN r
    ELSE IF r.ignoreSelfEvents /\ msg.senderId = Self THEN r
    ELSE IF EffectiveCorrelationId(msg) = r.correlationId
         THEN [r EXCEPT !.pc = "resolved", !.reply = msg]
    ELSE r

\* The inner pipe is subscribed: timeout(timeoutVal) starts and the
\* BehaviorSubject hands over its current value.
ArmReply(r) == ReplyNext([r EXCEPT !.pc = "waiting"], incomingMessages)

\* switchMap(() => this.subscriptionReady[subject].pipe(first())): `ready` is
\* the ready$ registered for the subject now; it replays if it has fired.
AwaitReady(r, ready, fired) ==
    IF ready \in fired THEN ArmReply(r)
    ELSE [r EXCEPT !.pc = "awaitReady", !.awaiting = ready]

\* ----------------------------------------------- configMessageListener$
\* filter(subject => this.listeningSubjects.indexOf(subject) === -1)
Passing(subjects) == SelectSeq(subjects, LAMBDA s : ~Includes(listeningSubjects, s))

ListenCaller(c) == [kind |-> "listen", id |-> c]
ConfigCaller(n) == [kind |-> "config", id |-> n]
ReplyCaller(k) == [kind |-> "reply", id |-> k]

\* from(subjects) emits synchronously: every passing element starts its
\* deferred async function, which runs up to `await this.js.subscribe`:
\* a new ready$ replaces this.subscriptionReady[subject] and the transport
\* subscribe is issued.
ConfigMessageListener(subjects, caller) ==
    LET passing == Passing(subjects)
        n == Len(tasks)
    IN  /\ n + Len(passing) <= MaxTasks
        /\ tasks' = tasks \o [i \in 1..Len(passing) |->
                        [subject |-> passing[i], caller |-> caller, pc |-> "subscribing"]]
        /\ loops' = loops \o [i \in 1..Len(passing) |->
                        [state |-> "none", log |-> <<>>, arrivals |-> <<>>, taken |-> 0,
                         steps |-> <<>>]]
        /\ subscriptionReady' = [s \in ListenableSubjects |->
                IF Includes(passing, s)
                THEN n + CHOOSE i \in DOMAIN passing :
                        /\ passing[i] = s
                        /\ \A j \in DOMAIN passing : passing[j] = s => j <= i
                ELSE subscriptionReady[s]]

\* configMessageListener$(subjects), subscribed by a caller of its own.
ConfigureListener(subjects) ==
    /\ configCalls < MaxConfigCalls
    /\ subjects # <<>>
    /\ configCalls' = configCalls + 1
    /\ ConfigMessageListener(subjects, ConfigCaller(configCalls + 1))
    /\ UNCHANGED <<listeningSubjects, readyFired, unacknowledgedCount, peakUnacknowledged,
                   incomingMessages, broadcastLog, ackLog, listeners,
                   streamSubjects, requests, lifecycleVars, libraryVars>>

\* getMessageListener$(subjects, ignoreSelfEvents), subscribed.
GetMessageListener(c, subjects, ignoreSelfEvents) ==
    /\ listeners[c].pc = "idle"
    /\ \A d \in Listeners : d < c => listeners[d].pc # "idle"
    /\ ConfigMessageListener(subjects, ListenCaller(c))
    /\ LET l == [pc |-> "config", subjects |-> subjects,
                 ignoreSelfEvents |-> ignoreSelfEvents, received |-> <<>>]
       IN  listeners' = [listeners EXCEPT ![c] =
                IF Passing(subjects) = <<>> THEN ArmListener(l) ELSE l]
    /\ UNCHANGED <<listeningSubjects, readyFired, unacknowledgedCount, peakUnacknowledged,
                   incomingMessages, broadcastLog, ackLog, configCalls,
                   streamSubjects, requests, lifecycleVars, libraryVars>>

\* Every other setup task of `caller` has finished: mergeMap completes and
\* reduce emits once task t returns.
LastTaskOf(t, caller) ==
    \A u \in DOMAIN tasks : (u # t /\ tasks[u].caller = caller) => tasks[u].pc = "done"

\* `await this.js.subscribe(...)` returns for task t: the consume loop is
\* started, the subject pushed on listeningSubjects, ready$ emits. The
\* caller's pipeline goes on if this was its last task, and so does every
\* reply wait suspended on this ready$.
SubscribeResolves(t) ==
    /\ t \in DOMAIN tasks
    /\ tasks[t].pc = "subscribing"
    /\ connection = "open"
    /\ tasks' = [tasks EXCEPT ![t].pc = "done"]
    /\ loops' = [loops EXCEPT ![t].state = "running"]
    /\ listeningSubjects' = Append(listeningSubjects, tasks[t].subject)
    /\ readyFired' = readyFired \cup {t}
    /\ listeners' = [c \in Listeners |->
            IF /\ tasks[t].caller = ListenCaller(c)
               /\ listeners[c].pc = "config"
               /\ LastTaskOf(t, ListenCaller(c))
            THEN ArmListener(listeners[c]) ELSE listeners[c]]
    /\ requests' = [k \in DOMAIN requests |->
            IF requests[k].pc = "config" /\ tasks[t].caller = ReplyCaller(k)
            THEN AwaitReady(requests[k], subscriptionReady[requests[k].responseSubject],
                            readyFired \cup {t})
            ELSE IF requests[k].pc = "awaitReady" /\ requests[k].awaiting = t
            THEN ArmReply(requests[k])
            ELSE requests[k]]
    /\ UNCHANGED <<subscriptionReady, unacknowledgedCount, peakUnacknowledged,
                   incomingMessages, broadcastLog, ackLog, configCalls,
                   streamSubjects, lifecycleVars, libraryVars>>

SubscribeRejectsEndingCall(t) ==
    /\ t \in DOMAIN tasks
    /\ tasks[t].pc = "subscribing"
    /\ tasks' = [u \in DOMAIN tasks |->
            IF tasks[u].caller = tasks[t].caller /\ tasks[u].pc = "subscribing"
            THEN [tasks[u] EXCEPT !.pc = "failed"] ELSE tasks[u]]
    /\ listeners' = [c \in Listeners |->
            IF tasks[t].caller = ListenCaller(c) /\ listeners[c].pc = "config"
            THEN [listeners[c] EXCEPT !.pc = "SubscribeError"] ELSE listeners[c]]
    /\ requests' = [k \in DOMAIN requests |->
            IF requests[k].pc = "config" /\ tasks[t].caller = ReplyCaller(k)
            THEN [requests[k] EXCEPT !.pc = "SubscribeError"] ELSE requests[k]]
    /\ UNCHANGED <<listeningSubjects, subscriptionReady, readyFired, unacknowledgedCount,
                   peakUnacknowledged, incomingMessages, loops, broadcastLog, ackLog,
                   configCalls, streamSubjects, lifecycleVars, libraryVars>>

\* `await this.js.subscribe(...)` rejects for task t: the async function
\* ends before the loop, the push and ready$.next. mergeMap passes the error
\* to the caller that subscribed configMessageListener$, whose pipeline ends;
\* the async functions of the other subjects are promises already running
\* and go on. A reply wait suspended on this ready$ stays suspended.
SubscribeRejects(t) ==
    /\ t \in DOMAIN tasks
    /\ tasks[t].pc = "subscribing"
    /\ tasks' = [tasks EXCEPT ![t].pc = "failed"]
    /\ listeners' = [c \in Listeners |->
            IF tasks[t].caller = ListenCaller(c) /\ listeners[c].pc = "config"
            THEN [listeners[c] EXCEPT !.pc = "SubscribeError"] ELSE listeners[c]]
    /\ requests' = [k \in DOMAIN requests |->
            IF requests[k].pc = "config" /\ tasks[t].caller = ReplyCaller(k)
            THEN [requests[k] EXCEPT !.pc = "SubscribeError"] ELSE requests[k]]
    /\ UNCHANGED <<listeningSubjects, subscriptionReady, readyFired, unacknowledgedCount,
                   peakUnacknowledged, incomingMessages, loops, broadcastLog, ackLog,
                   configCalls, streamSubjects, lifecycleVars, libraryVars>>

\* ------------------------------------------------------- consume loop
\* Messages delivered to the loops of tasks 1..n so far.
RECURSIVE DeliveredUpTo(_)
DeliveredUpTo(n) == IF n = 0 THEN 0 ELSE Len(loops[n].log) + DeliveredUpTo(n - 1)

\* The loop of task t has a delivered message it has not taken yet.
HasPending(t) == loops[t].taken < Len(loops[t].log)

\* The transport hands the subscription of task t one more message, which
\* was published on the subject `arrived`; the subscription buffers it until
\* the loop takes it.
DeliverOn(t, arrived, payload) ==
    /\ t \in DOMAIN tasks
    /\ loops[t].state \in {"running", "blocked"}
    /\ connection = "open"
    /\ DeliveredUpTo(Len(loops)) < MaxDeliveries
    /\ Matches(tasks[t].subject, arrived)
    /\ loops' = [loops EXCEPT ![t].log = Append(@, payload),
                              ![t].arrivals = Append(@, arrived)]
    /\ UNCHANGED <<listeningSubjects, subscriptionReady, readyFired, unacknowledgedCount,
                   peakUnacknowledged, incomingMessages, tasks, broadcastLog, ackLog,
                   listeners, configCalls, streamSubjects, requests, lifecycleVars, libraryVars>>

\* A message published on the very subject task t subscribed.
Deliver(t, payload) == DeliverOn(t, tasks[t].subject, payload)

FlowBlockedOffByOne(count) == count > maxUnacknowledged

\* while (this.unacknowledgedCount >= this.maxUnacknowledged)
FlowBlocked(count) == count >= maxUnacknowledged

NextTakenNewest(t) == Len(loops[t].log)

\* for await (const msg of sub): the subscription hands its buffered
\* messages over in the order they arrived; the next one is the one after
\* the last taken.
NextTaken(t) == loops[t].taken + 1

BodyStatementsAckFirst(payload) ==
    IF ~JsonParses(payload) THEN <<"increment", "ack">>
    ELSE IF ~SubjectAssignable(payload) THEN <<"increment", "ack", "decode">>
    ELSE <<"increment", "ack", "decode", "tag", "next", "decrement">>

\* The statements of the loop body that complete for a payload, in program
\* order: this.unacknowledgedCount++, JSON.parse, parsed.subject = subject,
\* incomingMessages$.next, msg.ack, this.unacknowledgedCount--. JSON.parse
\* throwing enters the catch block, whose first statement reads parsed.raw of
\* the still undefined `parsed`: a TypeError leaves the async function, the
\* loop is over, the counter keeps its increment and the error record of
\* the next line is never built. A primitive throws at parsed.subject =
\* subject with the same effect.
BodyStatements(payload) ==
    IF ~JsonParses(payload) THEN <<"increment">>
    ELSE IF ~SubjectAssignable(payload) THEN <<"increment", "decode">>
    ELSE <<"increment", "decode", "tag", "next", "ack", "decrement">>

\* The loop body for the next message of task t's buffer, with the effect of
\* each statement it completes.
LoopBody(t) ==
    LET i == NextTaken(t)
        payload == loops[t].log[i]
        parsed == Decoded(<<t, i>>, tasks[t].subject, payload)
        done == BodyStatements(payload)
    IN  /\ peakUnacknowledged' =
              IF unacknowledgedCount + 1 > peakUnacknowledged
              THEN unacknowledgedCount + 1 ELSE peakUnacknowledged
        /\ IF Includes(done, "next")
           THEN /\ incomingMessages' = parsed
                /\ broadcastLog' = Append(broadcastLog, parsed)
                /\ listeners' = [c \in Listeners |-> ListenerNext(listeners[c], parsed)]
                /\ requests' = [k \in DOMAIN requests |-> ReplyNext(requests[k], parsed)]
           ELSE UNCHANGED <<incomingMessages, broadcastLog, listeners, requests>>
        /\ ackLog' = IF Includes(done, "ack") THEN Append(ackLog, <<t, i>>) ELSE ackLog
        /\ unacknowledgedCount' =
              unacknowledgedCount + Occurrences(done, "increment")
                                  - Occurrences(done, "decrement")
        /\ loops' = [loops EXCEPT
              ![t].state = IF done[Len(done)] = "decrement" THEN "running" ELSE "dead",
              ![t].taken = i,
              ![t].steps = @ \o [j \in 1..Len(done) |-> <<done[j], i>>]]
        /\ UNCHANGED <<listeningSubjects, subscriptionReady, readyFired, tasks,
                       configCalls, streamSubjects, lifecycleVars, libraryVars>>

\* for await (const msg of sub), then the while condition of the flow-control
\* wait, evaluated when the message is taken and again each time the 100 ms
\* timer fires: the loop of task t either suspends (again) or runs the body.
ConsumeNext(t) ==
    /\ t \in DOMAIN tasks
    /\ loops[t].state \in {"running", "blocked"}
    /\ HasPending(t)
    /\ IF FlowBlocked(unacknowledgedCount)
       THEN /\ loops' = [loops EXCEPT ![t].state = "blocked"]
            /\ UNCHANGED <<listeningSubjects, subscriptionReady, readyFired,
                           unacknowledgedCount, peakUnacknowledged, incomingMessages,
                           tasks, broadcastLog, ackLog, listeners,
                           configCalls, streamSubjects, requests, lifecycleVars, libraryVars>>
       ELSE LoopBody(t)

\* ------------------------------------------- send$ and sendAndGetReply$
NewRequest(kind, subject, responseSubject, subjects, correlationId, ignoreSelfEvents) ==
    [kind |-> kind, pc |-> "info", stage |-> IF kind = "reply" THEN 1 ELSE 2,
     subject |-> subject, responseSubject |-> responseSubject, subjects |-> subjects,
     correlationId |-> correlationId, ignoreSelfEvents |-> ignoreSelfEvents,
     ensured |-> <<>>, update |-> <<>>, awaiting |-> 0, reply |-> NullMessage,
     messageId |-> Undefined, envelopeId |-> Undefined, publishes |-> 0,
     emitted |-> Undefined]

\* uuidv4(): an id no other call gets; k is the position of the call.
Uuid(k) == "uuid-" \o ToString(k)

\* The values of ops.messageId: absent, the empty string, an id.
MessageIds == {Undefined, "", "m1"}

\* messageId || uuidv4(): the empty string is falsy, as undefined is.
EnvelopeId(messageId, uuid) == IF messageId \in {Undefined, ""} THEN uuid ELSE messageId

\* send$(subject, type, payload, subjects, ops), subscribed: the deferred
\* ensureSubjectInStream$(subjects ?? []) starts and awaits streams.info.
Send(subject, subjects, correlationId) ==
    /\ Len(requests) < MaxRequests
    /\ requests' = Append(requests,
            NewRequest("send", subject, Undefined, subjects, correlationId, FALSE))
    /\ UNCHANGED <<listeningSubjects, subscriptionReady, readyFired, unacknowledgedCount,
                   peakUnacknowledged, incomingMessages, tasks, loops, broadcastLog, ackLog, listeners, configCalls, streamSubjects, lifecycleVars, libraryVars>>

\* send$(subject, type, payload, subjects, {correlationId, messageId}), subscribed.
SendWithOps(subject, subjects, correlationId, messageId) ==
    /\ Len(requests) < MaxRequests
    /\ requests' = Append(requests,
            [NewRequest("send", subject, Undefined, subjects, correlationId, FALSE)
                EXCEPT !.messageId = messageId])
    /\ UNCHANGED <<listeningSubjects, subscriptionReady, readyFired, unacknowledgedCount,
                   peakUnacknowledged, incomingMessages, tasks, loops, broadcastLog, ackLog,
                   listeners, configCalls, streamSubjects, lifecycleVars, libraryVars>>

\* sendAndGetReply$({...}), subscribed: ensureSubjectInStream$([responseSubject])
\* starts and awaits streams.info. Nothing else has run yet.
SendAndGetReply(subject, responseSubject, subjects, correlationId, ignoreSelfEvents) ==
    /\ Len(requests) < MaxRequests
    /\ requests' = Append(requests,
            NewRequest("reply", subject, responseSubject, subjects, correlationId,
                       ignoreSelfEvents))
    /\ UNCHANGED <<listeningSubjects, subscriptionReady, readyFired, unacknowledgedCount,
                   peakUnacknowledged, incomingMessages, tasks, loops, broadcastLog, ackLog, listeners, configCalls, streamSubjects, lifecycleVars, libraryVars>>

\* The streamOptions a caller passes: none of the four documented options,
\* one of them, all of them, or null.
StreamOptionSets ==
    {JsObject(<<>>), JsNull,
     JsObject(<<Prop("retention", JsString("workqueue"))>>),
     JsObject(<<Prop("storage", JsString("memory"))>>),
     JsObject(<<Prop("max_msgs", JsNumber("5"))>>),
     JsObject(<<Prop("max_bytes", JsNumber("2048"))>>),
     JsObject(<<Prop("retention", JsString("workqueue")), Prop("storage", JsString("memory")),
                Prop("max_msgs", JsNumber("5")), Prop("max_bytes", JsNumber("2048"))>>)}

\* x ?? fallback
Coalesce(x, fallback) == IF x \in {JsUndefined, JsNull} THEN fallback ELSE x

\* No descriptor: streams.add has not been called.
NoDescriptor ==
    [name |-> "", subjects |-> <<>>, retention |-> JsUndefined, storage |-> JsUndefined,
     max_msgs |-> JsUndefined, max_bytes |-> JsUndefined]

\* The object literal handed to streams.add; streamOptions?.key is Get, which
\* is undefined for null as for a missing property.
AddDescriptor(streamName, subjects, streamOptions) ==
    [name |-> streamName,
     subjects |-> subjects,
     retention |-> Coalesce(Get(streamOptions, "limits"), JsString("limits")),
     storage |-> Coalesce(Get(streamOptions, "storage"), JsString("file")),
     max_msgs |-> Coalesce(Get(streamOptions, "max_msgs"), JsNumber("1000")),
     max_bytes |-> Coalesce(Get(streamOptions, "max_msgs"), JsNumber("1073741824"))]

\* streamInfo.config as streams.info reports it for the stream start$
\* created with the default options, holding the subjects `currentSubjects`.
StreamInfoConfig(currentSubjects) ==
    AddDescriptor("EVENTS", currentSubjects, JsObject(<<>>))

UpdatedConfigSubjectsOnly(config, uniqueSubjects) ==
    [NoDescriptor EXCEPT !.subjects = uniqueSubjects]

\* { ...streamInfo.config, subjects: uniqueSubjects }
UpdatedConfig(config, uniqueSubjects) ==
    [config EXCEPT !.subjects = uniqueSubjects]

\* The subjects the running ensureSubjectInStream$ of request r was given.
EnsureRequested(r) == IF r.stage = 1 THEN <<r.responseSubject>> ELSE r.subjects

\* ensureSubjectInStream$ has returned for request r. In sendAndGetReply$
\* the first switchMap assigns the cold reply$ (nothing is subscribed) and
\* subscribes send$, whose own ensureSubjectInStream$ awaits streams.info.
\* In send$ the switchMap subscribes publish$: the envelope is built and
\* js.publish is called, once.
AfterEnsure(r, uuid) ==
    IF r.stage = 1 THEN [r EXCEPT !.pc = "info", !.stage = 2]
    ELSE [r EXCEPT !.pc = "publish", !.envelopeId = EnvelopeId(r.messageId, uuid),
                   !.publishes = @ + 1]

\* `await this.jsm.streams.info(this.streamName)` returns for request k: the
\* two early returns are decided on the subjects it reports; otherwise
\* streams.update is called with the merged subjects. `ensured` keeps, per
\* run, what was asked, what was found, whether update was called and the
\* configuration it was called with.
InfoResolves(k) ==
    /\ k \in DOMAIN requests
    /\ requests[k].pc = "info"
    /\ connection = "open"
    /\ LET r == requests[k]
           currentSubjects == streamSubjects
           subjects == EnsureRequested(r)
           update == NeedsUpdate(currentSubjects, subjects)
           config == StreamInfoConfig(currentSubjects)
           logged == [r EXCEPT !.ensured = Append(@,
                        [subjects |-> subjects, currentSubjects |-> currentSubjects,
                         update |-> update, config |-> config,
                         sent |-> IF update
                                  THEN <<UpdatedConfig(config,
                                            UniqueSubjects(currentSubjects, subjects))>>
                                  ELSE <<>>])]
       IN  requests' = [requests EXCEPT ![k] =
                IF update
                THEN [logged EXCEPT !.pc = "update",
                                    !.update = UniqueSubjects(currentSubjects, subjects)]
                ELSE AfterEnsure(logged, Uuid(k))]
    /\ UNCHANGED <<listeningSubjects, subscriptionReady, readyFired, unacknowledgedCount,
                   peakUnacknowledged, incomingMessages, tasks, loops,
                   broadcastLog, ackLog, listeners, configCalls, streamSubjects, lifecycleVars, libraryVars>>

\* `await this.jsm.streams.update(...)` returns for request k: the stream
\* service has replaced the stream's subjects by the ones it was given.
UpdateResolves(k) ==
    /\ k \in DOMAIN requests
    /\ requests[k].pc = "update"
    /\ connection = "open"
    /\ streamSubjects' = requests[k].update
    /\ requests' = [requests EXCEPT ![k] = AfterEnsure(requests[k], Uuid(k))]
    /\ UNCHANGED <<listeningSubjects, subscriptionReady, readyFired, unacknowledgedCount,
                   peakUnacknowledged, incomingMessages, tasks, loops, broadcastLog, ackLog, listeners, configCalls, lifecycleVars, libraryVars>>

\* `await this.js.publish(subject, payload)` returns for request k. send$
\* emits the id. sendAndGetReply$ reaches switchMap(() => reply$): only now
\* is getMessageReply$ subscribed, so configMessageListener$([responseSubject])
\* runs, then the wait for the subject's ready$, then the inner pipe.
\* `return uuid` hands the caller of send$ the id the envelope was built with.
PublishResolves(k) ==
    /\ k \in DOMAIN requests
    /\ requests[k].pc = "publish"
    /\ connection = "open"
    /\ LET r == requests[k] IN
       IF r.kind = "send"
       THEN /\ requests' = [requests EXCEPT ![k].pc = "done", ![k].emitted = r.envelopeId]
            /\ UNCHANGED <<tasks, loops, subscriptionReady>>
       ELSE /\ ConfigMessageListener(<<r.responseSubject>>, ReplyCaller(k))
            /\ requests' = [requests EXCEPT ![k] =
                   IF Passing(<<r.responseSubject>>) = <<>>
                   THEN AwaitReady(r, subscriptionReady[r.responseSubject], readyFired)
                   ELSE [r EXCEPT !.pc = "config"]]
    /\ UNCHANGED <<listeningSubjects, readyFired, unacknowledgedCount, peakUnacknowledged,
                   incomingMessages, broadcastLog, ackLog, listeners,
                   configCalls, streamSubjects, lifecycleVars, libraryVars>>

EnsureRejectsPublishing(k) ==
    /\ k \in DOMAIN requests
    /\ requests[k].pc \in {"info", "update"}
    /\ connection = "open"
    /\ requests' = [requests EXCEPT ![k] = AfterEnsure([@ EXCEPT !.stage = 2], Uuid(k))]
    /\ UNCHANGED <<listeningSubjects, subscriptionReady, readyFired, unacknowledgedCount,
                   peakUnacknowledged, incomingMessages, tasks, loops, broadcastLog, ackLog,
                   listeners, configCalls, streamSubjects, lifecycleVars, libraryVars>>

\* The awaited streams.info or streams.update of request k rejects (the
\* stream is gone, the service refuses the configuration, the call times
\* out): the async function of ensureSubjectInStream$ throws, the error
\* passes switchMap and reaches the caller; publish$ is never called.
EnsureRejects(k) ==
    /\ k \in DOMAIN requests
    /\ requests[k].pc \in {"info", "update"}
    /\ connection = "open"
    /\ requests' = [requests EXCEPT ![k].pc = "EnsureError"]
    /\ UNCHANGED <<listeningSubjects, subscriptionReady, readyFired, unacknowledgedCount,
                   peakUnacknowledged, incomingMessages, tasks, loops, broadcastLog, ackLog,
                   listeners, configCalls, streamSubjects, lifecycleVars, libraryVars>>

\* The awaited js.publish of request k rejects: the error reaches the
\* caller and no id is emitted.
PublishRejects(k) ==
    /\ k \in DOMAIN requests
    /\ requests[k].pc = "publish"
    /\ connection = "open"
    /\ requests' = [requests EXCEPT ![k].pc = "PublishError"]
    /\ UNCHANGED <<listeningSubjects, subscriptionReady, readyFired, unacknowledgedCount,
                   peakUnacknowledged, incomingMessages, tasks, loops, broadcastLog, ackLog,
                   listeners, configCalls, streamSubjects, lifecycleVars, libraryVars>>

ReplyTimeoutUnsubscribing(k) ==
    /\ k \in DOMAIN requests
    /\ requests[k].pc = "waiting"
    /\ requests' = [requests EXCEPT ![k].pc = "TimeoutError"]
    /\ listeningSubjects' =
            SelectSeq(listeningSubjects, LAMBDA s : s # requests[k].responseSubject)
    /\ UNCHANGED <<subscriptionReady, readyFired, unacknowledgedCount,
                   peakUnacknowledged, incomingMessages, tasks, loops, broadcastLog, ackLog,
                   listeners, configCalls, streamSubjects, lifecycleVars, libraryVars>>

\* timeout(timeoutVal) fires: nothing has passed the filters since the inner
\* pipe was subscribed.
ReplyTimeout(k) ==
    /\ k \in DOMAIN requests
    /\ requests[k].pc = "waiting"
    /\ requests' = [requests EXCEPT ![k].pc = "TimeoutError"]
    /\ UNCHANGED <<listeningSubjects, subscriptionReady, readyFired, unacknowledgedCount,
                   peakUnacknowledged, incomingMessages, tasks, loops, broadcastLog, ackLog, listeners, configCalls, streamSubjects, lifecycleVars, libraryVars>>

\* ----------------------------------------------------- disconnectBroker$
\* disconnectBroker$(), subscribed, and `await this.nc.close()` returned: the
\* connection is closed. No field of the broker is touched.
DisconnectBroker ==
    /\ connection = "open"
    /\ connection' = "closed"
    /\ UNCHANGED <<listeningSubjects, subscriptionReady, readyFired, unacknowledgedCount,
                   peakUnacknowledged, incomingMessages, tasks, loops, broadcastLog, ackLog,
                   listeners, configCalls, streamSubjects, requests,
                   verifiedStreams, serviceStreams, provisions, libraryVars>>

\* The awaited streams.info, streams.update or js.publish of request k
\* rejects on the closed connection: the error reaches the caller.
ServiceCallRejects(k) ==
    /\ k \in DOMAIN requests
    /\ requests[k].pc \in {"info", "update", "publish"}
    /\ connection = "closed"
    /\ requests' = [requests EXCEPT ![k].pc = "ConnectionError"]
    /\ UNCHANGED <<listeningSubjects, subscriptionReady, readyFired, unacknowledgedCount,
                   peakUnacknowledged, incomingMessages, tasks, loops, broadcastLog, ackLog,
                   listeners, configCalls, streamSubjects, lifecycleVars, libraryVars>>

\* ------------------------------------------- start$ and createStream
Provisions == 1..MaxProvisions

\* The fields the constructor sets: no connection yet, an empty cache. The
\* stream service holds any of the streams.
InitConstructed ==
    /\ listeningSubjects = <<>>
    /\ subscriptionReady = [s \in ListenableSubjects |-> 0]
    /\ readyFired = {}
    /\ unacknowledgedCount = 0
    /\ peakUnacknowledged = 0
    /\ incomingMessages = NullMessage
    /\ tasks = <<>>
    /\ loops = <<>>
    /\ broadcastLog = <<>>
    /\ ackLog = <<>>
    /\ listeners = [c \in Listeners |-> IdleListener]
    /\ configCalls = 0
    /\ streamSubjects = InitialStreamSubjects
    /\ requests = <<>>
    /\ connection = "null"
    /\ verifiedStreams = [name \in StreamNames |-> "unset"]
    /\ serviceStreams \in SUBSET StreamNames
    /\ provisions = <<>>
    /\ LibraryIdle

\* One start$ or createStream call: who called, the stream name, subjects
\* and options, where it is, the cache entry it found on entering
\* createStream, the stream-service calls it issued, the descriptor given to
\* streams.add, the service call that failed, what start$ told its observer
\* (the last signal, and all of them in order), and on return the cache entry
\* and whether the stream existed.
NewProvision(caller, name, subjects, streamOptions, pc) ==
    [caller |-> caller, name |-> name, subjects |-> subjects, options |-> streamOptions,
     pc |-> pc, entry |-> "unset", calls |-> <<>>, descriptor |-> NoDescriptor,
     failure |-> "none", signal |-> "none", notifications |-> <<>>,
     marked |-> "unset", existed |-> FALSE]

AlreadyVerifiedIgnored(name) == FALSE

\* if (this.verifiedStreams[streamName])
AlreadyVerified(name) == verifiedStreams[name] = "true"

\* createStream returns (it has no path that throws) with the cache `cache`
\* and the service streams `streams`: start$ goes on to observer.next and
\* observer.complete.
Returned(q, cache, streams) ==
    [q EXCEPT !.pc = "returned",
              !.marked = cache[q.name],
              !.existed = q.name \in streams,
              !.signal = IF q.caller = "start" THEN "next" ELSE "none",
              !.notifications = IF q.caller = "start" THEN <<"next", "complete">> ELSE <<>>]

\* if (streamName && Array.isArray(subjects) && subjects.length > 0)
StreamSuppliedForAnySubjects(name, subjects) == name # ""

StreamSupplied(name, subjects) == name # "" /\ Len(subjects) > 0

\* createStream is entered: it returns at once for a verified name, and
\* awaits streams.info otherwise.
EnterCreateStream(q) ==
    LET e == [q EXCEPT !.entry = verifiedStreams[q.name]]
    IN  IF AlreadyVerified(q.name) THEN Returned(e, verifiedStreams, serviceStreams)
        ELSE [e EXCEPT !.pc = "info", !.calls = Append(@, "info")]

\* start$(streamName, subjects, streamOptions), subscribed: Nats.connect is
\* awaited.
StartWith(name, subjects, streamOptions) ==
    /\ connection = "null"
    /\ Len(provisions) < MaxProvisions
    /\ \A i \in DOMAIN provisions : provisions[i].pc # "connecting"
    /\ provisions' = Append(provisions,
            NewProvision("start", name, subjects, streamOptions, "connecting"))
    /\ UNCHANGED <<listeningSubjects, subscriptionReady, readyFired, unacknowledgedCount,
                   peakUnacknowledged, incomingMessages, tasks, loops, broadcastLog, ackLog,
                   listeners, configCalls, streamSubjects, requests,
                   connection, verifiedStreams, serviceStreams, libraryVars>>

\* start$(streamName, subjects) with a non-empty subjects array and the
\* default streamOptions = {}.
Start(name) == StartWith(name, InitialStreamSubjects, JsObject(<<>>))

\* `await Nats.connect(...)` returns: nc, jsm and js are set and createStream
\* is called when a stream name and subjects were given; if not, start$ goes
\* on to observer.next and observer.complete at once.
ConnectResolves(i) ==
    /\ i \in DOMAIN provisions
    /\ provisions[i].pc = "connecting"
    /\ connection' = "open"
    /\ provisions' = [provisions EXCEPT ![i] =
            IF StreamSupplied(provisions[i].name, provisions[i].subjects)
            THEN EnterCreateStream(provisions[i])
            ELSE [provisions[i] EXCEPT !.pc = "connected", !.signal = "next",
                                       !.notifications = <<"next", "complete">>]]
    /\ UNCHANGED <<listeningSubjects, subscriptionReady, readyFired, unacknowledgedCount,
                   peakUnacknowledged, incomingMessages, tasks, loops, broadcastLog, ackLog,
                   listeners, configCalls, streamSubjects, requests,
                   verifiedStreams, serviceStreams, libraryVars>>

\* `await Nats.connect(...)` rejects: the catch of start$ calls observer.error.
ConnectRejects(i) ==
    /\ i \in DOMAIN provisions
    /\ provisions[i].pc = "connecting"
    /\ provisions' = [provisions EXCEPT ![i].pc = "failed", ![i].signal = "error",
                                        ![i].notifications = <<"error">>]
    /\ UNCHANGED <<listeningSubjects, subscriptionReady, readyFired, unacknowledgedCount,
                   peakUnacknowledged, incomingMessages, tasks, loops, broadcastLog, ackLog,
                   listeners, configCalls, streamSubjects, requests,
                   connection, verifiedStreams, serviceStreams, libraryVars>>

\* createStream(streamName, subjects, streamOptions), called by a user of
\* the broker.
CreateStreamWith(name, subjects, streamOptions) ==
    /\ connection = "open"
    /\ Len(provisions) < MaxProvisions
    /\ provisions' = Append(provisions,
            EnterCreateStream(NewProvision("direct", name, subjects, streamOptions, "entered")))
    /\ UNCHANGED <<listeningSubjects, subscriptionReady, readyFired, unacknowledgedCount,
                   peakUnacknowledged, incomingMessages, tasks, loops, broadcastLog, ackLog,
                   listeners, configCalls, streamSubjects, requests,
                   connection, verifiedStreams, serviceStreams, libraryVars>>

\* createStream(streamName, subjects) with the default streamOptions = {}.
CreateStream(name) == CreateStreamWith(name, InitialStreamSubjects, JsObject(<<>>))

\* `await this.jsm.streams.info(streamName)` answers. For a stream that
\* exists it returns its info and createStream returns, the cache untouched.
\* For one that does not it throws with code '404': streams.add is called.
StreamInfoResolves(i) ==
    /\ i \in DOMAIN provisions
    /\ provisions[i].pc = "info"
    /\ provisions' = [provisions EXCEPT ![i] =
            IF provisions[i].name \in serviceStreams
            THEN Returned(provisions[i], verifiedStreams, serviceStreams)
            ELSE [provisions[i] EXCEPT
                    !.pc = "add", !.calls = Append(@, "add"),
                    !.descriptor = AddDescriptor(provisions[i].name, provisions[i].subjects,
                                                 provisions[i].options)]]
    /\ UNCHANGED <<listeningSubjects, subscriptionReady, readyFired, unacknowledgedCount,
                   peakUnacknowledged, incomingMessages, tasks, loops, broadcastLog, ackLog,
                   listeners, configCalls, streamSubjects, requests,
                   connection, verifiedStreams, serviceStreams, libraryVars>>

\* `await this.jsm.streams.info(streamName)` throws with another code (a
\* timeout, a permission error): the catch block does nothing for it and
\* createStream returns normally.
StreamInfoRejects(i) ==
    /\ i \in DOMAIN provisions
    /\ provisions[i].pc = "info"
    /\ provisions' = [provisions EXCEPT ![i] =
            Returned([provisions[i] EXCEPT !.failure = "info"], verifiedStreams, serviceStreams)]
    /\ UNCHANGED <<listeningSubjects, subscriptionReady, readyFired, unacknowledgedCount,
                   peakUnacknowledged, incomingMessages, tasks, loops, broadcastLog, ackLog,
                   listeners, configCalls, streamSubjects, requests,
                   connection, verifiedStreams, serviceStreams, libraryVars>>

\* `await this.jsm.streams.add(...)` returns: the stream exists, and the
\* statement after the await marks the name verified.
StreamAddResolves(i) ==
    /\ i \in DOMAIN provisions
    /\ provisions[i].pc = "add"
    /\ serviceStreams' = serviceStreams \cup {provisions[i].name}
    /\ verifiedStreams' = [verifiedStreams EXCEPT ![provisions[i].name] = "true"]
    /\ provisions' = [provisions EXCEPT ![i] =
            Returned(provisions[i], verifiedStreams', serviceStreams')]
    /\ UNCHANGED <<listeningSubjects, subscriptionReady, readyFired, unacknowledgedCount,
                   peakUnacknowledged, incomingMessages, tasks, loops, broadcastLog, ackLog,
                   listeners, configCalls, streamSubjects, requests, connection, libraryVars>>

\* `this.jsm.streams.add(...)` rejects: the .catch handler logs, sets the
\* cache entry to false and returns, which settles the awaited promise; the
\* statement after the await then sets the entry to true.
StreamAddRejects(i) ==
    /\ i \in DOMAIN provisions
    /\ provisions[i].pc = "add"
    /\ LET afterCatch == [verifiedStreams EXCEPT ![provisions[i].name] = "false"]
           afterAwait == [afterCatch EXCEPT ![provisions[i].name] = "true"]
       IN  /\ verifiedStreams' = afterAwait
           /\ provisions' = [provisions EXCEPT ![i] =
                   Returned([provisions[i] EXCEPT !.failure = "add"], afterAwait, serviceStreams)]
    /\ UNCHANGED <<listeningSubjects, subscriptionReady, readyFired, unacknowledgedCount,
                   peakUnacknowledged, incomingMessages, tasks, loops, broadcastLog, ackLog,
                   listeners, configCalls, streamSubjects, requests,
                   connection, serviceStreams, libraryVars>>

\* The pipeline of request r has ended, with a value or an error.
Ended(r) ==
    r.pc \in {"done", "resolved", "TimeoutError", "TypeError", "SubscribeError",
              "ConnectionError"}

\* ----------------------------------------- the envelope on the wire
\* publish$(subject, type, data, {correlationId, messageId}) up to
\* Buffer.from(JSON.stringify(envelope)): the envelope literal, then its bytes.
PublishEncodes(type, data, correlationId, messageId) ==
    /\ codec.pc = "idle"
    /\ LET envelope == BuildEnvelope(OrElse(messageId, JsString(Uuid(1))), type, data,
                                     JsString(Self), correlationId)
       IN  codec' = [codec EXCEPT !.pc = "encoded", !.envelope = envelope,
                                  !.payload = Stringify(envelope)]
    /\ UNCHANGED <<brokerVars, factory, build, engine, uniqueId>>

\* The consume loop of a broker listening on `subject` decodes the bytes:
\* JSON.parse(msg.data.toString()), then parsed.subject = subject.
ConsumeDecodes(subject) ==
    /\ codec.pc = "encoded"
    /\ codec' = [codec EXCEPT !.pc = "decoded",
                              !.parsed = WithSubject(Parse(codec.payload), subject)]
    /\ UNCHANGED <<brokerVars, factory, build, engine, uniqueId>>

\* ------------------------------------------------- brokerFactory(type)
\* module.exports = (brokerType) => {...}: a BrokerFactory is constructed
\* and stored under the key unless the key holds one; the broker of the one
\* stored is returned (0 stands for undefined, else the object's number).
BrokerFactoryCall(brokerType) ==
    /\ Len(factory.calls) < MaxFactoryCalls
    /\ LET hit == Cached(factory.instance, brokerType)
           objects == IF hit THEN factory.objects
                      ELSE Append(factory.objects, NewBrokerFactory(brokerType))
           stored == IF hit THEN factory.instance[brokerType] ELSE Len(objects)
       IN  factory' = [factory EXCEPT
               !.objects = objects,
               !.instance[brokerType] = stored,
               !.calls = Append(@, [brokerType |-> brokerType,
                                    returned |-> IF objects[stored].broker THEN stored ELSE 0])]
    /\ UNCHANGED <<brokerVars, codec, build, engine, uniqueId>>

\* The caller of call c works with the broker it was given: the broker's
\* own fields change (its flow-control counter stands for them all).
BrokerUsed(c) ==
    /\ c \in DOMAIN factory.calls
    /\ factory.calls[c].returned # 0
    /\ factory.uses < MaxBrokerUses
    /\ factory' = [factory EXCEPT
           !.uses = @ + 1,
           !.objects[factory.calls[c].returned].unacknowledgedCount = @ + 1,
           !.objects[factory.calls[c].returned].usedThrough =
                Append(@, factory.calls[c].brokerType)]
    /\ UNCHANGED <<brokerVars, codec, build, engine, uniqueId>>

\* ------------------------------------------------- getBusinessRule$
\* A null toDateTime: the rule has no end.
NoTime == -1

\* The projection of a rule the metadata query returns.
RuleMetadata(id, companyIds, fromDateTime, toDateTime, publishTimestamp) ==
    [id |-> id, companyIds |-> companyIds, fromDateTime |-> fromDateTime,
     toDateTime |-> toDateTime, publishTimestamp |-> publishTimestamp]

\* The rules a query may return: for every company or for "C", in force from
\* time 1 with no end or until time 2, published at 1 or 2. A toDateTime is null
\* or a date in epoch milliseconds, never the number 0.
MetadataRules ==
    {RuleMetadata(0, companyIds, 1, toDateTime, publishTimestamp) :
        companyIds \in {<<>>, <<"C">>}, toDateTime \in {NoTime, 2},
        publishTimestamp \in {1, 2}}

\* The arrays the metadata query may resolve to, each rule with its own _id.
MetadataLists ==
    UNION {{[i \in 1..n |-> [list[i] EXCEPT !.id = i]] : list \in [1..n -> MetadataRules]} :
              n \in 0..MaxRules}

\* What the metadata query returns when it finds one open-ended rule.
OneRule == <<RuleMetadata(1, <<>>, 0, NoTime, 1)>>

\* br.companyIds.length === 0 || br.companyIds.includes(companyId || 'ANY')
ForCompany(br, companyOrAny) ==
    Len(br.companyIds) = 0 \/ Includes(br.companyIds, companyOrAny)

\* br.fromDateTime <= currentDateTime
Started(br, currentDateTime) == br.fromDateTime <= currentDateTime

NotEndedIgnoringEnd(br, currentDateTime) == TRUE

\* !br.toDateTime || br.toDateTime >= currentDateTime
NotEnded(br, currentDateTime) ==
    br.toDateTime \in {NoTime, 0} \/ br.toDateTime >= currentDateTime

\* br.toDateTime != null
Finite(br) == br.toDateTime # NoTime

\* if (rules.some(br => br.toDateTime != null))
\*     rules = rules.filter(br => br.toDateTime != null)
PreferFinite(rules) ==
    IF \E i \in DOMAIN rules : Finite(rules[i]) THEN SelectSeq(rules, Finite) ELSE rules

\* .sort((a, b) => b.publishTimestamp - a.publishTimestamp): the latest
\* published first, equal ones in their order.
RECURSIVE SortByPublishDescending(_)
SortByPublishDescending(rules) ==
    IF rules = <<>> THEN <<>>
    ELSE LET top == CHOOSE i \in DOMAIN rules :
                        \A j \in DOMAIN rules :
                            \/ rules[i].publishTimestamp > rules[j].publishTimestamp
                            \/ (/\ rules[i].publishTimestamp = rules[j].publishTimestamp
                                /\ i <= j)
         IN  <<rules[top]>> \o SortByPublishDescending(RemoveAt(rules, top))

\* The statements of getBusinessRule$ between its two queries: the three
\* filters, each followed by its throw when nothing is left, the preference
\* for rules with an end, the sort and [0]. `id` is the _id of the rule the
\* second query asks for, 0 when one of the throws was taken.
SelectRule(businessRulesMetadata, companyOrAny, currentDateTime) ==
    LET forCompany == SelectSeq(businessRulesMetadata,
                                LAMBDA br : ForCompany(br, companyOrAny))
        current == SelectSeq(SelectSeq(forCompany, LAMBDA br : Started(br, currentDateTime)),
                             LAMBDA br : NotEnded(br, currentDateTime))
    IN  IF businessRulesMetadata = <<>>
        THEN [error |-> "Business rules not found", id |-> 0]
        ELSE IF forCompany = <<>>
        THEN [error |-> "Business rule not found for company", id |-> 0]
        ELSE IF current = <<>>
        THEN [error |-> "Business rule not found for current time", id |-> 0]
        ELSE [error |-> "none", id |-> SortByPublishDescending(PreferFinite(current))[1].id]

\* getBusinessRule$(type, organizationId, companyId, queryBusinessRules$)
\* up to its first await: the cached rule is returned if the key holds an
\* unexpired one, else the metadata query is issued. `valid` keeps, for the
\* record, the unexpired rule that was cached for these very arguments.
GetBusinessRule(type, organizationId, companyId) ==
    /\ Len(engine.calls) < MaxRuleCalls
    /\ LET brKey == BrKey(type, organizationId, companyId)
           hits == CacheHits(engine.cache, brKey, engine.now)
           for == <<type, organizationId, CompanyOrAny(companyId)>>
           valid == {entry \in engine.cache :
                        entry.for = for /\ entry.expirationTs > engine.now}
           call == [for |-> for, brKey |-> brKey,
                    valid |-> IF valid = {} THEN 0 ELSE (CHOOSE entry \in valid : TRUE).rule,
                    pc |-> "metadata", queries |-> 1, result |-> 0, replaced |-> FALSE,
                    metadata |-> <<>>, at |-> NoTime, error |-> "none", selected |-> 0]
       IN  engine' = [engine EXCEPT !.calls = Append(@,
               IF hits # {}
               THEN [call EXCEPT !.pc = "returned", !.queries = 0,
                                 !.result = (CHOOSE entry \in hits : TRUE).rule]
               ELSE call)]
    /\ UNCHANGED <<brokerVars, codec, factory, build, uniqueId>>

\* The metadata query of call c resolves to the array `metadata`: the rule
\* for the company and the current time is selected and the query by _id is
\* issued, or the call throws. `metadata`, `at`, `error` and `selected` keep
\* what the selection was given and what it gave.
MetadataResolvesWith(c, metadata) ==
    /\ c \in DOMAIN engine.calls
    /\ engine.calls[c].pc = "metadata"
    /\ LET chosen == SelectRule(metadata, engine.calls[c].for[3], engine.now)
           seen == [engine.calls[c] EXCEPT !.metadata = metadata, !.at = engine.now,
                                           !.error = chosen.error, !.selected = chosen.id]
       IN  engine' = [engine EXCEPT !.calls[c] =
               IF chosen.error = "none" THEN [seen EXCEPT !.pc = "spec", !.queries = 2]
               ELSE [seen EXCEPT !.pc = "failed"]]
    /\ UNCHANGED <<brokerVars, codec, factory, build, uniqueId>>

\* The metadata query of call c settles: with a rule that applies now to
\* every company, or with none.
MetadataResolves(c, found) ==
    MetadataResolvesWith(c, IF found THEN OneRule ELSE <<>>)

\* The query by _id of call c settles. With a spec whose source loads a new
\* BusinessRule is built, given its expiration and stored under the key in
\* place of what the key held; else the call throws and the cache is as it was.
SpecResolves(c, loaded) ==
    /\ c \in DOMAIN engine.calls
    /\ engine.calls[c].pc = "spec"
    /\ LET call == engine.calls[c]
           rule == Len(engine.rules) + 1
           expirationTs == engine.now + Min(CacheTtl, MillisecondsToEndOfDay(engine.now))
       IN  engine' =
             IF loaded
             THEN [engine EXCEPT
                     !.rules = Append(@, call.for),
                     !.cache = {entry \in @ : entry.brKey # call.brKey}
                               \cup {[brKey |-> call.brKey, for |-> call.for, rule |-> rule,
                                      expirationTs |-> expirationTs]},
                     !.calls[c] = [call EXCEPT !.pc = "returned", !.result = rule,
                                               !.replaced = TRUE]]
             ELSE [engine EXCEPT !.calls[c].pc = "failed"]
    /\ UNCHANGED <<brokerVars, codec, factory, build, uniqueId>>

\* Date.now() moves on.
ClockTicks ==
    /\ engine.now < MaxClock
    /\ engine' = [engine EXCEPT !.now = @ + 1]
    /\ UNCHANGED <<brokerVars, codec, factory, build, uniqueId>>

\* ---------------------------------------------- custom business rules
\* buildCustomBusinessRule$(type, name, source, language, languageVersion):
\* new BusinessRule(...) creates the VM and loads the source; what the
\* constructor throws rejects the promise and no rule is returned.
BuildCustomBusinessRule(source, language, languageVersion) ==
    /\ build.pc = "idle"
    /\ LET created == createVm(language, languageVersion)
           asked == [build EXCEPT !.language = language,
                                  !.languageVersion = languageVersion,
                                  !.source = source.name]
       IN  build' = IF ~created.ok
                    THEN [asked EXCEPT !.pc = "failed", !.error = created.error]
                    ELSE IF ~source.loads
                    THEN [asked EXCEPT !.pc = "failed", !.error = "loadSource"]
                    ELSE [asked EXCEPT !.pc = "built", !.vm = created.vm]
    /\ UNCHANGED <<brokerVars, codec, factory, engine, uniqueId>>

\* businessRule.execute(args, functionName) on the rule that was built:
\* the VM looks the global function up, throws if there is none, calls it
\* and returns its value or wraps what it threw.
Execute(args, functionName) ==
    /\ build.pc = "built"
    /\ LET source == CHOOSE src \in RuleSources : src.name = build.source
           called == [build EXCEPT !.functionName = functionName, !.args = args]
       IN  build' = IF functionName \notin source.functions
                    THEN [called EXCEPT !.pc = "threw", !.error = "not found"]
                    ELSE IF functionName \in source.throwing
                    THEN [called EXCEPT !.pc = "threw", !.error = "Error calling"]
                    ELSE [called EXCEPT !.pc = "returned",
                                        !.result = ReturnValue(source, functionName, args)]
    /\ UNCHANGED <<brokerVars, codec, factory, engine, uniqueId>>

\* ------------------------------------------------- UniqueId calls
\* new UniqueId()
NewUniqueId(drawn) ==
    /\ ~uniqueId.constructed
    /\ uniqueId' = [uniqueId EXCEPT !.constructed = TRUE,
                                    !.processUnique = drawn.processUnique,
                                    !.index = drawn.index]
    /\ UNCHANGED <<brokerVars, codec, factory, build, engine>>

\* generate(time) with a number, followed by getRange(time) on the same
\* instance: `first` and `last` keep the first and the latest buffer
\* generated, `range` the [min, max] for the latest.
Generate(time) ==
    /\ uniqueId.constructed
    /\ uniqueId.generated < MaxGenerated
    /\ LET inc == GetInc(uniqueId.index)
           buffer == IdBuffer(time, uniqueId.processUnique, inc)
       IN  uniqueId' = [uniqueId EXCEPT
               !.index = inc,
               !.generated = @ + 1,
               !.first = IF uniqueId.generated = 0 THEN buffer ELSE @,
               !.last = buffer,
               !.range = GetRange(time, uniqueId.processUnique)]
    /\ UNCHANGED <<brokerVars, codec, factory, build, engine>>

\* ------------------------------------------------------ specifications
\* The languages and versions a custom rule is built with, and the calls
\* on the rule built.
LanguageVersions ==
    {Given(Version(<<5, 3>>)), Given(Version(<<5>>)), Given(Version(<<10>>)),
     Given(Version(<<4, 9>>)), Given(Version(<<6>>)), Given(Version(<<99>>)),
     Given(NoNumber), NullVersion}

NextBuild ==
    \/ \E source \in RuleSources, language \in {"LUA", "JS", "PYTHON"},
          languageVersion \in LanguageVersions :
          BuildCustomBusinessRule(source, language, languageVersion)
    \/ \E args \in {<<>>, <<1>>}, functionName \in {"exec", "other", "missing"} :
          Execute(args, functionName)

SpecBuild == Init /\ [][NextBuild]_vars

\* The rule cache under getBusinessRule$ calls, their queries and the clock.
NextRules ==
    \/ \E type \in RuleTypes, organizationId \in OrganizationIds, companyId \in CompanyIds :
          GetBusinessRule(type, organizationId, companyId)
    \/ \E c \in 1..MaxRuleCalls, found \in BOOLEAN : MetadataResolves(c, found)
    \/ \E c \in 1..MaxRuleCalls, loaded \in BOOLEAN : SpecResolves(c, loaded)
    \/ ClockTicks

SpecRules == Init /\ [][NextRules]_vars

\* Two calls of getBusinessRule$, time passing before each: the
\* first finds one rule and may cache it, the second is answered with every
\* array of rule metadata.
NextSelect ==
    \/ \E companyId \in CompanyIds :
          /\ Len(engine.calls) <= 1
          /\ \A c \in DOMAIN engine.calls : engine.calls[c].pc \in {"returned", "failed"}
          /\ GetBusinessRule("T", "O", companyId)
    \/ MetadataResolvesWith(1, OneRule)
    \/ \E metadata \in MetadataLists : MetadataResolvesWith(2, metadata)
    \/ \E c \in 1..MaxRuleCalls, loaded \in BOOLEAN : SpecResolves(c, loaded)
    \/ /\ Len(engine.calls) <= 1
       /\ \A c \in DOMAIN engine.calls : engine.calls[c].pc \in {"returned", "failed"}
       /\ ClockTicks

SpecSelect == Init /\ [][NextSelect]_vars

\* The factory and the brokers it hands out.
NextFactory ==
    \/ \E brokerType \in BrokerTypes : BrokerFactoryCall(brokerType)
    \/ \E c \in 1..MaxFactoryCalls : BrokerUsed(c)

SpecFactory == Init /\ [][NextFactory]_vars

\* The envelopes publish$ builds: a type or none, data of any shape, a
\* correlationId or none, a messageId or none.
NextCodec ==
    \/ \E type \in {JsString("T"), JsUndefined}, data \in JsValues(MaxDataDepth),
          correlationId \in {JsString("c1"), JsUndefined},
          messageId \in {JsString("m1"), JsUndefined} :
          PublishEncodes(type, data, correlationId, messageId)
    \/ \E subject \in Subjects : ConsumeDecodes(subject)

SpecCodec == Init /\ [][NextCodec]_vars

\* The correlation ids a caller passes in ops (undefined when it passes none).
RequestCorrelationIds == {"c1"}

\* The whole broker.
Next ==
    \/ \E subjects \in ListenRequests : ConfigureListener(subjects)
    \/ \E c \in Listeners, subjects \in ListenRequests, ign \in BOOLEAN :
          GetMessageListener(c, subjects, ign)
    \/ \E t \in Tasks : SubscribeResolves(t)
    \/ \E t \in Tasks, payload \in Payloads : Deliver(t, payload)
    \/ \E t \in Tasks : ConsumeNext(t)
    \/ \E s \in Subjects, subjects \in SendSubjects, c \in RequestCorrelationIds :
          Send(s, subjects, c)
    \/ \E s \in Subjects, rs \in Subjects, subjects \in SendSubjects,
          c \in RequestCorrelationIds, ign \in BOOLEAN :
          SendAndGetReply(s, rs, subjects, c, ign)
    \/ \E k \in Requests : InfoResolves(k)
    \/ \E k \in Requests : UpdateResolves(k)
    \/ \E k \in Requests : PublishResolves(k)
    \/ \E k \in Requests : ReplyTimeout(k)
    \/ \E t \in Tasks : SubscribeRejects(t)
    \/ \E k \in Requests : ServiceCallRejects(k)
    \/ \E s \in Subjects, subjects \in SendSubjects, c \in RequestCorrelationIds,
          messageId \in MessageIds : SendWithOps(s, subjects, c, messageId)
    \/ \E k \in Requests : EnsureRejects(k)
    \/ \E k \in Requests : PublishRejects(k)
    \/ DisconnectBroker
    \/ \E name \in StreamNames : CreateStream(name)
    \/ \E i \in Provisions : StreamInfoResolves(i)
    \/ \E i \in Provisions : StreamInfoRejects(i)
    \/ \E i \in Provisions : StreamAddResolves(i)
    \/ \E i \in Provisions : StreamAddRejects(i)

Spec == Init /\ [][Next]_vars

\* The subscription manager: direct configMessageListener$ calls, the setup
\* tasks and the consume loops.
NextFlow ==
    \/ \E subjects \in ListenRequests : ConfigureListener(subjects)
    \/ \E t \in Tasks : SubscribeResolves(t)
    \/ \E t \in Tasks, payload \in FlowPayloads : Deliver(t, payload)
    \/ \E t \in Tasks : ConsumeNext(t)

SpecFlow == Init /\ [][NextFlow]_vars

\* A consume loop that can take a step takes it: the event loop runs every
\* ready continuation and every expired timer.
FairFlow == SpecFlow /\ \A t \in Tasks : WF_vars(ConsumeNext(t))

\* The listener views over the subscription manager.
NextListen ==
    \/ \E c \in Listeners, subjects \in ListenRequests, ign \in BOOLEAN :
          GetMessageListener(c, subjects, ign)
    \/ \E t \in Tasks : SubscribeResolves(t)
    \/ \E t \in Tasks, payload \in Payloads : Deliver(t, payload)
    \/ \E t \in Tasks : ConsumeNext(t)

SpecListen == Init /\ [][NextListen]_vars

\* The stream provisioner under send$.
NextStream ==
    \/ \E s \in {"REQ"}, subjects \in SendSubjects, c \in RequestCorrelationIds :
          Send(s, subjects, c)
    \/ \E k \in Requests : InfoResolves(k)
    \/ \E k \in Requests : UpdateResolves(k)
    \/ \E k \in Requests : PublishResolves(k)

SpecStream == Init /\ [][NextStream]_vars

\* One request/reply round trip beside the subscription manager.
NextReply ==
    \/ \E s \in Subjects : ConfigureListener(<<s>>)
    \/ \E subjects \in {<<"REQ">>}, c \in RequestCorrelationIds, ign \in BOOLEAN :
          /\ requests = <<>>
          /\ SendAndGetReply("REQ", "RES", subjects, c, ign)
    \/ \E k \in Requests : InfoResolves(k)
    \/ \E k \in Requests : UpdateResolves(k)
    \/ \E k \in Requests : PublishResolves(k)
    \/ \E t \in Tasks : SubscribeResolves(t)
    \/ \E t \in Tasks, payload \in Payloads : Deliver(t, payload)
    \/ \E t \in Tasks : ConsumeNext(t)
    \/ \E k \in Requests : ReplyTimeout(k)

SpecReply == Init /\ [][NextReply]_vars

\* The listener views and what their filters let through; the transport
\* delivers a message once the loops have taken the earlier ones.
NextView ==
    \/ \E c \in Listeners, subjects \in ViewRequests, ign \in BOOLEAN :
          GetMessageListener(c, subjects, ign)
    \/ \E t \in Tasks : SubscribeResolves(t)
    \/ \E t \in Tasks, payload \in ViewPayloads :
          /\ \A u \in DOMAIN tasks : ~HasPending(u)
          /\ Deliver(t, payload)
    \/ \E t \in Tasks : ConsumeNext(t)

SpecView == Init /\ [][NextView]_vars

\* Listener views and one request/reply round trip that subscribe to the
\* channel after it has carried messages.
NextReplay ==
    \/ \E s \in Subjects : ConfigureListener(<<s>>)
    \/ \E c \in Listeners, subjects \in ViewRequests :
          GetMessageListener(c, subjects, FALSE)
    \/ /\ requests = <<>>
       /\ SendAndGetReply("REQ", "RES", <<"REQ">>, "c1", FALSE)
    \/ \E k \in Requests : InfoResolves(k)
    \/ \E k \in Requests : UpdateResolves(k)
    \/ \E k \in Requests : PublishResolves(k)
    \/ \E t \in Tasks : SubscribeResolves(t)
    \/ \E t \in Tasks : Deliver(t, Envelope(Other, "c1"))
    \/ \E t \in Tasks : ConsumeNext(t)

SpecReplay == Init /\ [][NextReplay]_vars

\* A consumer on a wildcard subject beside one on a plain subject.
NextWildcard ==
    \/ \E s \in WildcardSubjects \cup {"REQ"} : ConfigureListener(<<s>>)
    \/ \E c \in Listeners, s \in WildcardSubjects, ign \in BOOLEAN :
          GetMessageListener(c, <<s>>, ign)
    \/ \E t \in Tasks : SubscribeResolves(t)
    \/ \E t \in Tasks, arrived \in PublishSubjects \cup {"REQ"} :
          DeliverOn(t, arrived, Envelope(Other, "c1"))
    \/ \E t \in Tasks : ConsumeNext(t)

SpecWildcard == Init /\ [][NextWildcard]_vars

\* send$ with its options, the stream service answering or refusing.
NextSend ==
    \/ \E subjects \in {<<>>, <<"REQ">>}, messageId \in MessageIds :
          SendWithOps("REQ", subjects, "c1", messageId)
    \/ \E k \in Requests : InfoResolves(k)
    \/ \E k \in Requests : UpdateResolves(k)
    \/ \E k \in Requests : EnsureRejects(k)
    \/ \E k \in Requests : PublishResolves(k)
    \/ \E k \in Requests : PublishRejects(k)

SpecSend == Init /\ [][NextSend]_vars

\* The hosts another broker may run on: senderId is os.hostname(), so a
\* broker on this broker's host builds envelopes with this broker's senderId.
PublisherHosts == {Self, Other}

\* Another broker publishes one envelope on REQ, which this broker listens on.
NextCross ==
    \/ \E c \in Listeners, ign \in BOOLEAN : GetMessageListener(c, <<"REQ">>, ign)
    \/ \E t \in Tasks : SubscribeResolves(t)
    \/ \E t \in Tasks, host \in PublisherHosts, correlationId \in {"c1", Undefined} :
          /\ DeliveredUpTo(Len(loops)) = 0
          /\ Deliver(t, Envelope(host, correlationId))
    \/ \E t \in Tasks : ConsumeNext(t)

SpecCross == Init /\ [][NextCross]_vars

\* start$ and createStream against the stream service.
NextProvision ==
    \/ \E name \in StreamNames : Start(name)
    \/ \E i \in Provisions : ConnectResolves(i)
    \/ \E i \in Provisions : ConnectRejects(i)
    \/ \E name \in StreamNames : CreateStream(name)
    \/ \E i \in Provisions : StreamInfoResolves(i)
    \/ \E i \in Provisions : StreamInfoRejects(i)
    \/ \E i \in Provisions : StreamAddResolves(i)
    \/ \E i \in Provisions : StreamAddRejects(i)

SpecProvision == InitConstructed /\ [][NextProvision]_vars

\* start$ and createStream with supplied and missing stream options.
NextDescriptor ==
    \/ \E name \in StreamNames, streamOptions \in StreamOptionSets :
          StartWith(name, InitialStreamSubjects, streamOptions)
    \/ \E i \in Provisions : ConnectResolves(i)
    \/ \E i \in Provisions : ConnectRejects(i)
    \/ \E name \in StreamNames, streamOptions \in StreamOptionSets :
          CreateStreamWith(name, InitialStreamSubjects, streamOptions)
    \/ \E i \in Provisions : StreamInfoResolves(i)
    \/ \E i \in Provisions : StreamInfoRejects(i)
    \/ \E i \in Provisions : StreamAddResolves(i)
    \/ \E i \in Provisions : StreamAddRejects(i)

SpecDescriptor == InitConstructed /\ [][NextDescriptor]_vars

\* start$ with and without a stream name and subjects, and createStream.
NextStart ==
    \/ \E name \in StreamNames \cup {""}, subjects \in {<<>>, InitialStreamSubjects} :
          StartWith(name, subjects, JsObject(<<>>))
    \/ \E i \in Provisions : ConnectResolves(i)
    \/ \E i \in Provisions : ConnectRejects(i)
    \/ \E name \in StreamNames : CreateStream(name)
    \/ \E i \in Provisions : StreamInfoResolves(i)
    \/ \E i \in Provisions : StreamInfoRejects(i)
    \/ \E i \in Provisions : StreamAddResolves(i)
    \/ \E i \in Provisions : StreamAddRejects(i)

SpecStart == InitConstructed /\ [][NextStart]_vars

\* The operations of a broker around disconnectBroker$.
NextClose ==
    \/ \E c \in Listeners, subjects \in {<<>>, <<"REQ">>} :
          GetMessageListener(c, subjects, FALSE)
    \/ \E t \in Tasks : SubscribeResolves(t)
    \/ \E t \in Tasks : SubscribeRejects(t)
    \/ /\ requests = <<>>
       /\ Send("REQ", <<"REQ">>, "c1")
    \/ /\ requests # <<>>
       /\ SendAndGetReply("REQ", "RES", <<"REQ">>, "c1", FALSE)
    \/ \E k \in Requests : InfoResolves(k)
    \/ \E k \in Requests : UpdateResolves(k)
    \/ \E k \in Requests : PublishResolves(k)
    \/ \E k \in Requests : ReplyTimeout(k)
    \/ \E k \in Requests : ServiceCallRejects(k)
    \/ DisconnectBroker

SpecClose == Init /\ [][NextClose]_vars

\* Listen calls whose transport subscribes may fail.
NextIsolation ==
    \/ \E c \in Listeners, subjects \in ListenRequests :
          GetMessageListener(c, subjects, FALSE)
    \/ \E t \in Tasks : SubscribeResolves(t)
    \/ \E t \in Tasks : SubscribeRejects(t)
    \/ \E t \in Tasks : Deliver(t, Envelope(Other, "c1"))
    \/ \E t \in Tasks : ConsumeNext(t)

SpecIsolation == Init /\ [][NextIsolation]_vars

\* Reply waits on one response subject, one after the other.
NextRetry ==
    \/ \E c \in {"c1", "c2"}, ign \in BOOLEAN :
          /\ \A k \in DOMAIN requests : Ended(requests[k])
          /\ SendAndGetReply("REQ", "RES", <<"REQ">>, c, ign)
    \/ \E k \in Requests : InfoResolves(k)
    \/ \E k \in Requests : UpdateResolves(k)
    \/ \E k \in Requests : PublishResolves(k)
    \/ \E t \in Tasks : SubscribeResolves(t)
    \/ \E t \in Tasks, payload \in {Envelope(Other, "c1"), Envelope(Other, "c2"), InvalidBytes} :
          Deliver(t, payload)
    \/ \E t \in Tasks : ConsumeNext(t)
    \/ \E k \in Requests : ReplyTimeout(k)

SpecRetry == Init /\ [][NextRetry]_vars

\* One reply wait for "c1" and the replies that carry an id in either place.
NextMatch ==
    \/ \E ign \in BOOLEAN :
          /\ requests = <<>>
          /\ SendAndGetReply("REQ", "RES", <<"REQ">>, "c1", ign)
    \/ \E k \in Requests : InfoResolves(k)
    \/ \E k \in Requests : UpdateResolves(k)
    \/ \E k \in Requests : PublishResolves(k)
    \/ \E t \in Tasks : SubscribeResolves(t)
    \/ \E t \in Tasks, payload \in MatchPayloads : Deliver(t, payload)
    \/ \E t \in Tasks : ConsumeNext(t)
    \/ \E k \in Requests : ReplyTimeout(k)

SpecMatch == Init /\ [][NextMatch]_vars

\* One UniqueId and the ids it generates.
NextUnique ==
    \/ \E drawn \in Constructions : NewUniqueId(drawn)
    \/ \E time \in GenerateTimes : Generate(time)

SpecUnique == Init /\ [][NextUnique]_vars

\* ------------------------------------------------------------- claims
\* Transport subscribes issued for subject s: one per setup task.
SubscribeCalls(s) == Cardinality({t \in DOMAIN tasks : tasks[t].subject = s})

\* Consume loops started for subject s.
LoopsStarted(s) ==
    Cardinality({t \in DOMAIN tasks : tasks[t].subject = s /\ loops[t].state # "none"})

\* The loop body has run for the i-th message delivered to task t.
Taken(t, i) == t \in DOMAIN loops /\ i <= loops[t].taken

\* js.publish has been called with the envelope of request k.
Published(k) ==
    requests[k].pc \in {"publish", "done", "config", "awaitReady", "waiting",
                        "resolved", "TimeoutError", "TypeError"}

\* C1: whatever listen requests name a subject (repeated in one call, in
\* sequential calls, in overlapping calls), there is at most one transport
\* subscribe for it, at most one consume loop, and it is listed at most once
\* in listeningSubjects.
C1_SubscriptionIdempotent ==
    \A s \in Subjects :
        /\ SubscribeCalls(s) <= 1
        /\ LoopsStarted(s) <= 1
        /\ Occurrences(listeningSubjects, s) <= 1

\* C2: the counter stays within 0..maxUnacknowledged, and no loop has ever
\* incremented it (accepted a delivery) while it was at maxUnacknowledged or
\* above: its largest value ever is at most maxUnacknowledged.
C2_FlowControlBound ==
    /\ unacknowledgedCount >= 0
    /\ unacknowledgedCount <= maxUnacknowledged
    /\ peakUnacknowledged <= maxUnacknowledged

\* C2 witness: the counter is at the bound with several loops started, and a
\* loop holding a delivery is suspended in the flow-control wait.
C2_Witness ==
    /\ unacknowledgedCount = maxUnacknowledged
    /\ \E t \in DOMAIN loops : loops[t].state = "blocked" /\ HasPending(t)
    /\ Cardinality({t \in DOMAIN loops : loops[t].state # "none"}) >= 2

\* C3: every message the transport delivers on a subscribed subject is
\* eventually broadcast and acknowledged.
C3_EveryDeliveryAcked ==
    \A t \in Tasks : \A i \in 1..MaxDeliveries :
        (t \in DOMAIN loops /\ Len(loops[t].log) >= i) ~>
            (/\ \E j \in DOMAIN broadcastLog : broadcastLog[j].id = <<t, i>>
             /\ \E j \in DOMAIN ackLog : ackLog[j] = <<t, i>>)

\* C4: a message whose bytes are no JSON, once the loop body has run for it,
\* is on the broadcast channel as an error record tagged with the subject.
C4_InvalidPayloadBroadcast ==
    \A t \in DOMAIN loops : \A i \in DOMAIN loops[t].log :
        (Taken(t, i) /\ ~JsonParses(loops[t].log[i])) =>
            \E j \in DOMAIN broadcastLog :
                /\ broadcastLog[j].id = <<t, i>>
                /\ broadcastLog[j].shape = "error"
                /\ broadcastLog[j].subject = tasks[t].subject

\* C5: a consume loop that has received a malformed message is still running.
C5_DecodeFailureKeepsLoop ==
    \A t \in DOMAIN loops : \A i \in DOMAIN loops[t].log :
        (Taken(t, i) /\ ~JsonParses(loops[t].log[i])) =>
            loops[t].state \in {"running", "blocked"}

\* C6: an ensureSubjectInStream$ run that finds every requested subject in
\* the stream's current subjects calls streams.update zero times.
C6_NoOpFastPath ==
    \A k \in DOMAIN requests : \A i \in DOMAIN requests[k].ensured :
        LET e == requests[k].ensured[i]
        IN  Range(e.subjects) \subseteq Range(e.currentSubjects) => ~e.update

\* C6 witness: two sequential send$ calls with the same, non-empty subjects
\* have completed; the first added them by an update, the second found them
\* among more subjects than it asked for and issued none.
C6_Witness ==
    /\ Len(requests) = 2
    /\ \A k \in DOMAIN requests : requests[k].pc = "done" /\ Len(requests[k].ensured) = 1
    /\ requests[1].ensured[1].update
    /\ ~requests[2].ensured[1].update
    /\ requests[2].subjects = requests[1].subjects
    /\ requests[2].subjects # <<>>
    /\ requests[2].ensured[1].currentSubjects = requests[1].update
    /\ ~AreEqual(requests[2].ensured[1].currentSubjects, requests[2].subjects)

\* C7: once a send$ has its subjects ensured, the stream holds its initial
\* subjects and every subject the call requested, whatever other calls
\* overlap with it.
C7_SubjectsNeverLost ==
    \A k \in DOMAIN requests :
        requests[k].pc \in {"publish", "done"} =>
            (Range(requests[k].subjects) \cup Range(InitialStreamSubjects))
                \subseteq Range(streamSubjects)

\* No value with the correlation id of request k has been broadcast.
NoReplyArrived(k) ==
    \A i \in DOMAIN broadcastLog :
        EffectiveCorrelationId(broadcastLog[i]) # requests[k].correlationId

\* C8: with no message carrying the request's correlationId, sendAndGetReply$
\* ends in a TimeoutError and in nothing else.
C8_OnlyTimeoutError ==
    \A k \in DOMAIN requests :
        (requests[k].kind = "reply" /\ NoReplyArrived(k)) =>
            requests[k].pc \notin {"TypeError", "resolved"}

\* The reply wait of request k is subscribed to the channel (or has ended).
Armed(k) == requests[k].pc \in {"waiting", "resolved", "TimeoutError", "TypeError"}

\* C9: when the request envelope of a sendAndGetReply$ has been given to
\* js.publish, its reply waiter is already subscribed to the channel.
C9_ArmedBeforePublish ==
    \A k \in DOMAIN requests :
        (requests[k].kind = "reply" /\ Published(k)) => Armed(k)

\* C10: sendAndGetReply$ resolves only with a message that arrived on
\* responseSubject, carries the request's correlationId and, under
\* ignoreSelfEvents, was sent by another instance.
C10_ResolvedByReplyOnly ==
    \A k \in DOMAIN requests :
        requests[k].pc = "resolved" =>
            /\ requests[k].reply.subject = requests[k].responseSubject
            /\ EffectiveCorrelationId(requests[k].reply) = requests[k].correlationId
            /\ requests[k].ignoreSelfEvents => requests[k].reply.senderId # Self

\* The id c is carried by msg under attributes or at top level.
CarriesCorrelationId(msg, c) == msg.correlationId = c \/ msg.topCorrelationId = c

\* C11: a reply wait for c accepts a message exactly when it carries c under
\* attributes or at top level: it resolves only with such a message, it is
\* not left waiting on one that passed the null and sender filters, and a
\* message that does not match is skipped, not raised.
C11_CorrelationMatching ==
    \A k \in DOMAIN requests :
        LET r == requests[k]
            msg == incomingMessages
        IN  /\ r.pc = "resolved" => CarriesCorrelationId(r.reply, r.correlationId)
            /\ r.pc = "waiting" =>
                  ~(/\ msg.shape # "null"
                    /\ (r.ignoreSelfEvents => msg.senderId # Self)
                    /\ CarriesCorrelationId(msg, r.correlationId))
            /\ r.pc # "TypeError"

\* C12: a view obtained with ignoreSelfEvents = true has yielded no message
\* whose attributes.senderId is this instance's senderId.
C12_NeverYieldsSelf ==
    \A c \in Listeners :
        listeners[c].ignoreSelfEvents =>
            \A i \in DOMAIN listeners[c].received : listeners[c].received[i].senderId # Self

\* C12 witness: a view with ignoreSelfEvents = true has yielded a message,
\* and a later broadcast that passes its subject filter came from this
\* instance.
C12_Witness ==
    \E c \in Listeners : \E i \in DOMAIN broadcastLog : \E j \in DOMAIN broadcastLog :
        /\ listeners[c].ignoreSelfEvents
        /\ listeners[c].pc = "live"
        /\ i < j
        /\ broadcastLog[i] \in Range(listeners[c].received)
        /\ broadcastLog[j].senderId = Self
        /\ Len(listeners[c].subjects) = 0 \/ Includes(listeners[c].subjects, broadcastLog[j].subject)

\* The three conditions under which a view is to yield msg.
Yields(l, msg) ==
    /\ msg.shape # "null"
    /\ ~l.ignoreSelfEvents \/ (HasAttributes(msg) /\ msg.senderId # Self)
    /\ Len(l.subjects) = 0 \/ Includes(l.subjects, msg.subject)

\* C13: a subscribed view has yielded the value now on the channel if and
\* only if it is not the sentinel, it is from another instance or
\* ignoreSelfEvents is false, and its subject is in `subjects` or `subjects`
\* is empty.
C13_ListenerFilter ==
    \A c \in Listeners :
        listeners[c].pc \in {"live", "error"} =>
            (Yields(listeners[c], incomingMessages)
                <=> incomingMessages \in Range(listeners[c].received))

\* C14: a start$ whose stream provisioning failed (streams.info failed with
\* something other than not-found, or streams.add failed) has told its
\* observer an error and no success.
C14_StartNeverPartiallySucceeds ==
    \A i \in DOMAIN provisions :
        (provisions[i].caller = "start" /\ provisions[i].failure # "none") =>
            provisions[i].signal = "error"

\* C16: a createStream call that found its name verified in the cache has
\* issued no stream-service call.
C16_VerifiedSkipsService ==
    \A i \in DOMAIN provisions :
        provisions[i].entry = "true" =>
            provisions[i].calls = <<>> /\ provisions[i].pc = "returned"

\* C16 witness: a createStream call created the stream and marked it; a later
\* call for the same name has returned without any service call.
C16_Witness ==
    \E i \in DOMAIN provisions : \E j \in DOMAIN provisions :
        /\ i < j
        /\ provisions[i].name = provisions[j].name
        /\ provisions[i].calls = <<"info", "add">>
        /\ provisions[i].pc = "returned"
        /\ provisions[j].entry = "true"
        /\ provisions[j].pc = "returned"
        /\ provisions[j].calls = <<>>

\* C17: when createStream has returned without a failed service call and the
\* stream exists at the service, the cache entry of the name is verified.
C17_ExistingStreamMarked ==
    \A i \in DOMAIN provisions :
        (/\ provisions[i].pc = "returned"
         /\ provisions[i].failure = "none"
         /\ provisions[i].existed) => provisions[i].marked = "true"

\* C18: a createStream call whose streams.add failed has left the cache entry
\* of its name in the failed state.
C18_FailedAddMarkedFailed ==
    \A i \in DOMAIN provisions :
        provisions[i].failure = "add" => provisions[i].marked = "false"

\* C15: once the connection is closed, no operation succeeds or starts to
\* wait: no listener view becomes subscribed to the channel, and no send$ or
\* sendAndGetReply$ completes or begins its wait for a reply.
C15_NothingSucceedsAfterDisconnect ==
    [][connection = "closed" =>
          /\ \A c \in Listeners :
                listeners'[c].pc = "live" => listeners[c].pc = "live"
          /\ \A k \in DOMAIN requests' :
                requests'[k].pc \in {"done", "waiting", "resolved"} =>
                    (k \in DOMAIN requests
                        /\ requests[k].pc \in {"done", "waiting", "resolved"})]_vars

\* The transport subscribe of task t fails in this step.
SubscribeFails(t) == tasks[t].pc = "subscribing" /\ tasks'[t].pc = "failed"

\* C19: the step in which the transport subscribe of a subject fails reports
\* the error to the caller that requested it and to no other, adds nothing
\* to listeningSubjects, and leaves every other setup task and every consume
\* loop as it was; and a task set up beside failed ones still ends with its
\* loop running and its subject listed.
C19_SubscribeFailureIsolated ==
    /\ [][\A t \in DOMAIN tasks :
            SubscribeFails(t) =>
                /\ listeningSubjects' = listeningSubjects
                /\ loops' = loops
                /\ \A u \in DOMAIN tasks : u # t => tasks'[u] = tasks[u]
                /\ \A c \in Listeners :
                      IF tasks[t].caller = ListenCaller(c) /\ listeners[c].pc = "config"
                      THEN listeners'[c].pc = "SubscribeError"
                      ELSE listeners'[c] = listeners[c]]_vars
    /\ [](\A u \in DOMAIN tasks :
            tasks[u].pc = "done" =>
                /\ loops[u].state \in {"running", "blocked"}
                /\ Includes(listeningSubjects, tasks[u].subject))

\* C19 witness: of two subjects requested in one call the subscribe of one
\* has failed, its caller has the error and the subject is not listed, and
\* the loop of the other is running and has broadcast a message.
C19_Witness ==
    \E t \in DOMAIN tasks : \E u \in DOMAIN tasks : \E c \in Listeners :
        /\ tasks[t].caller = ListenCaller(c)
        /\ tasks[u].caller = ListenCaller(c)
        /\ tasks[t].pc = "failed"
        /\ listeners[c].pc = "SubscribeError"
        /\ ~Includes(listeningSubjects, tasks[t].subject)
        /\ tasks[u].pc = "done"
        /\ loops[u].state = "running"
        /\ \E j \in DOMAIN broadcastLog : broadcastLog[j].id = <<u, 1>>

\* The reply wait of request k ends in a timeout in this step.
TimesOut(k) == requests[k].pc = "waiting" /\ requests'[k].pc = "TimeoutError"

\* Request k leaves js.publish in this step, after an earlier reply wait on
\* the same response subject has timed out.
RetriesAfterTimeout(k) ==
    /\ requests[k].pc = "publish"
    /\ requests'[k].pc # "publish"
    /\ \E j \in DOMAIN requests :
          /\ j < k
          /\ requests[j].pc = "TimeoutError"
          /\ requests[j].responseSubject = requests[k].responseSubject

\* C20: the step in which a reply wait times out leaves the response subject
\* in listeningSubjects and every setup task, consume loop and ready signal
\* as it was; a later sendAndGetReply$ on that response subject starts no
\* setup task (no new consumer) and goes straight to its wait.
C20_TimeoutKeepsSubscription ==
    [][\A k \in DOMAIN requests :
          /\ TimesOut(k) =>
                /\ Includes(listeningSubjects', requests[k].responseSubject)
                /\ listeningSubjects' = listeningSubjects
                /\ tasks' = tasks
                /\ loops' = loops
                /\ subscriptionReady' = subscriptionReady
                /\ readyFired' = readyFired
          /\ RetriesAfterTimeout(k) =>
                /\ tasks' = tasks
                /\ requests'[k].pc \in {"waiting", "resolved", "TypeError"}]_vars

\* C20 witness: a reply wait on RES has timed out, and a later
\* sendAndGetReply$ on RES with another correlation id has been resolved by
\* a reply on RES carrying that id, through the one consumer of RES.
C20_Witness ==
    /\ Len(requests) = 2
    /\ requests[1].pc = "TimeoutError"
    /\ requests[2].pc = "resolved"
    /\ requests[2].responseSubject = requests[1].responseSubject
    /\ requests[2].correlationId # requests[1].correlationId
    /\ requests[2].reply.subject = requests[2].responseSubject
    /\ requests[2].reply.correlationId = requests[2].correlationId
    /\ SubscribeCalls(requests[1].responseSubject) = 1

\* The acknowledgements of the consume loop of task t, in the order made.
AcksOf(t) == SelectSeq(ackLog, LAMBDA a : a[1] = t)

\* C21: within the consume loop of one subject the acknowledgements are
\* made in delivery order: the n-th acknowledgement of the loop is that of
\* the n-th message delivered to it, so the acknowledgement of message k+1
\* never comes before that of message k.
C21_AcksInDeliveryOrder ==
    \A t \in DOMAIN loops :
        \A n \in 1..Len(AcksOf(t)) : AcksOf(t)[n] = <<t, n>>

\* One loop has acknowledged two deliveries, the first before the second.
C21_Witness ==
    \E t \in DOMAIN loops :
        /\ Len(loops[t].log) = 2
        /\ AcksOf(t) = << <<t, 1>>, <<t, 2>> >>

\* The statements of one complete loop body for message i.
FullBody(i) ==
    << <<"increment", i>>, <<"decode", i>>, <<"tag", i>>, <<"next", i>>, <<"ack", i>>,
       <<"decrement", i>> >>

\* C22: for each message the loop increments the counter, decodes and tags,
\* broadcasts, acknowledges and decrements, in that order; every
\* acknowledged message was broadcast before its acknowledgement and no
\* message is acknowledged without having been broadcast.
C22_BroadcastBeforeAck ==
    /\ \A t \in DOMAIN loops :
          \A p \in DOMAIN loops[t].steps :
              loops[t].steps[p][1] = "ack" =>
                  /\ p >= 5
                  /\ p + 1 <= Len(loops[t].steps)
                  /\ SubSeq(loops[t].steps, p - 4, p + 1) = FullBody(loops[t].steps[p][2])
    /\ Len(ackLog) <= Len(broadcastLog)
    /\ \A j \in DOMAIN ackLog : broadcastLog[j].id = ackLog[j]

\* One loop ran a complete body and acknowledged its message, another took
\* a payload that is no JSON and acknowledged nothing.
C22_Witness ==
    \E t, u \in DOMAIN loops :
        /\ loops[t].steps = FullBody(1)
        /\ ackLog = << <<t, 1>> >>
        /\ broadcastLog[1].id = <<t, 1>>
        /\ loops[u].taken = 1
        /\ loops[u].steps = << <<"increment", 1>> >>

\* C29: a listener view yields only messages broadcast after it subscribed
\* and a reply wait is never resolved by a message broadcast before its
\* request was published: in a step that broadcasts nothing no view yields
\* a message and no reply wait resolves.
C29_NoReplayOfEarlierBroadcast ==
    [][broadcastLog' = broadcastLog =>
          /\ \A c \in Listeners : listeners'[c].received = listeners[c].received
          /\ \A k \in DOMAIN requests :
                requests'[k].pc = "resolved" => requests[k].pc = "resolved"]_vars

\* The subject the message with id <<t, i>> arrived on.
ArrivedOn(id) == loops[id[1]].arrivals[id[2]]

\* C30: every broadcast message carries in `subject` the subject it actually
\* arrived on, also when its consumer subscribed a wildcard subject.
C30_SubjectIsArrivalSubject ==
    \A j \in DOMAIN broadcastLog :
        broadcastLog[j].subject = ArrivedOn(broadcastLog[j].id)

\* The ensureSubjectInStream$ of send call k has returned the stream name.
EnsureSucceeded(k) ==
    /\ Len(requests[k].ensured) = 1
    /\ requests[k].pc \notin {"info", "update", "EnsureError"}

\* C25: send$ publishes only after ensureSubjectInStream$ has succeeded: a
\* call whose ensure failed has published nothing and ended with the error;
\* a call whose ensure succeeded has issued exactly one publish, and the
\* value it emits is the id of the envelope, which is the caller's
\* messageId when one (a non-empty one) was supplied.
C25_PublishOnlyAfterEnsure ==
    \A k \in DOMAIN requests :
        requests[k].kind = "send" =>
            /\ requests[k].publishes = (IF EnsureSucceeded(k) THEN 1 ELSE 0)
            /\ requests[k].pc = "EnsureError" => requests[k].emitted = Undefined
            /\ requests[k].pc = "done" =>
                  /\ EnsureSucceeded(k)
                  /\ requests[k].emitted = requests[k].envelopeId
                  /\ requests[k].messageId \notin {Undefined, ""} =>
                        requests[k].emitted = requests[k].messageId
            /\ requests[k].emitted # Undefined => requests[k].pc = "done"

\* One send failed in ensureSubjectInStream$ after streams.info had
\* answered, another went through with the caller's messageId.
C25_Witness ==
    /\ Len(requests) = 2
    /\ requests[1].pc = "EnsureError"
    /\ Len(requests[1].ensured) = 1
    /\ requests[1].publishes = 0
    /\ requests[2].pc = "done"
    /\ requests[2].messageId = "m1"
    /\ requests[2].emitted = "m1"
    /\ requests[2].publishes = 1

\* What the view c has yielded of the message with the given id.
ReceivedOf(c, id) == SelectSeq(listeners[c].received, LAMBDA m : m.id = id)

\* C23: a message another broker published once on a subject this broker
\* listens to is received by a live listener on that subject exactly once,
\* with the sender and correlationId it was published with.
C23_CrossBrokerExactlyOnce ==
    \A c \in Listeners, t \in DOMAIN loops :
        (listeners[c].pc = "live" /\ loops[t].taken = 1) =>
            /\ Len(ReceivedOf(c, <<t, 1>>)) = 1
            /\ ReceivedOf(c, <<t, 1>>)[1].correlationId = loops[t].log[1].correlationId
            /\ ReceivedOf(c, <<t, 1>>)[1].senderId = loops[t].log[1].senderId

\* e and d agree on every envelope field: id, type, data, attributes.senderId
\* and attributes.correlationId (an absent field reads as undefined).
EnvelopeFieldsEqual(e, d) ==
    /\ Get(d, "id") = Get(e, "id")
    /\ Get(d, "type") = Get(e, "type")
    /\ Get(d, "data") = Get(e, "data")
    /\ Get(d, "attributes").kind = "object"
    /\ Get(Get(d, "attributes"), "senderId") = Get(Get(e, "attributes"), "senderId")
    /\ Get(Get(d, "attributes"), "correlationId") =
          Get(Get(e, "attributes"), "correlationId")

\* C24: decoding in the consume loop the bytes publish$ produced for an
\* envelope yields an envelope equal to it field by field.
C24_EnvelopeRoundTrip ==
    codec.pc = "decoded" => EnvelopeFieldsEqual(codec.envelope, codec.parsed)

SupportedMajor(language) ==
    CASE language = "LUA" -> 5
      [] language = "JS" -> Major(NodeVersion).n
      [] OTHER -> -1

\* The requested major version, -1 when none can be read.
RequestedMajor(languageVersion) ==
    IF languageVersion.null \/ ~languageVersion.value.numeric THEN -1
    ELSE languageVersion.value.parts[1]

\* C28: a custom rule built with a supported language and a version whose
\* major is not above the VM's runs on a VM of that language with a major
\* version >= the requested one, and execute(args, functionName) returns
\* what the named global function returns; with an unsupported language or
\* a too-high version the build fails with an error and there is no rule.
C28_VmOfRequestedLanguage ==
    /\ build.pc \in {"built", "threw", "returned"} =>
          /\ build.vm.language = build.language
          /\ RequestedMajor(build.languageVersion) >= 0
          /\ Major(build.vm.version).n >= RequestedMajor(build.languageVersion)
    /\ build.pc = "returned" =>
          build.result = [source |-> build.source, function |-> build.functionName,
                          args |-> build.args]
    /\ (build.pc # "idle" /\ (SupportedMajor(build.language) < 0
            \/ RequestedMajor(build.languageVersion) > SupportedMajor(build.language))) =>
          /\ build.pc = "failed"
          /\ build.error # ""
          /\ build.vm = NoVm
    /\ (build.pc # "idle" /\ build.source # "broken"
            /\ RequestedMajor(build.languageVersion) >= 0
            /\ RequestedMajor(build.languageVersion) <= SupportedMajor(build.language)) =>
          build.pc # "failed"

\* The rule of the JS test: built for JS 10 on the Node.js VM, exec called.
C28_Witness ==
    /\ build.pc = "returned"
    /\ build.language = "JS"
    /\ build.languageVersion = Given(Version(<<10>>))
    /\ build.vm.class = "NodeJsVM"
    /\ build.functionName = "exec"
    /\ build.result.function = "exec"

\* C27: a getBusinessRule$ call made while an unexpired rule is cached for
\* its (type, organizationId, companyId or 'ANY') returns that rule object
\* without a query; a call made on a miss or after expiry that returns a
\* rule has called queryBusinessRules$ exactly twice and has replaced the
\* cache entry with the rule it returns.
C27_CachedRuleOrTwoQueries ==
    \A c \in DOMAIN engine.calls :
        LET call == engine.calls[c]
        IN  /\ call.valid # 0 =>
                  /\ call.pc = "returned"
                  /\ call.result = call.valid
                  /\ call.queries = 0
            /\ (call.valid = 0 /\ call.pc = "returned") =>
                  /\ call.queries = 2
                  /\ call.replaced
                  /\ engine.rules[call.result] = call.for

\* The value of option `key` in the descriptor of streams.add, as documented:
\* the caller's value when the options carry one, else the default.
OptionOr(streamOptions, key, default) ==
    IF Get(streamOptions, key) \in {JsUndefined, JsNull} THEN default
    ELSE Get(streamOptions, key)

\* C31: every createStream call that issued streams.add gave it a descriptor
\* with the call's name and subjects and, for retention, storage, max_msgs
\* and max_bytes, the caller's option when supplied and otherwise "limits",
\* "file", 1000 and 1073741824.
C31_AddDescriptorDefaults ==
    \A i \in DOMAIN provisions :
        Includes(provisions[i].calls, "add") =>
            provisions[i].descriptor =
                [name |-> provisions[i].name,
                 subjects |-> provisions[i].subjects,
                 retention |-> OptionOr(provisions[i].options, "retention", JsString("limits")),
                 storage |-> OptionOr(provisions[i].options, "storage", JsString("file")),
                 max_msgs |-> OptionOr(provisions[i].options, "max_msgs", JsNumber("1000")),
                 max_bytes |-> OptionOr(provisions[i].options, "max_bytes",
                                        JsNumber("1073741824"))]
\* C32: every streams.update issued by ensureSubjectInStream$ carries, as
\* subjects, the subjects streams.info reported together with the requested
\* ones, each once, and every other field of the configuration as
\* streams.info reported it.
C32_UpdateIsUnionAndPassThrough ==
    \A k \in DOMAIN requests : \A i \in DOMAIN requests[k].ensured :
        LET e == requests[k].ensured[i]
        IN  e.update =>
                /\ Len(e.sent) = 1
                /\ Range(e.sent[1].subjects) = Range(e.currentSubjects) \cup Range(e.subjects)
                /\ \A x \in Range(e.sent[1].subjects) : Occurrences(e.sent[1].subjects, x) = 1
                /\ [e.sent[1] EXCEPT !.subjects = <<>>] = [e.config EXCEPT !.subjects = <<>>]

\* C32 witness: an update that added a requested subject to a stream that
\* already held another one has been applied by the stream service.
C32_Witness ==
    \E k \in DOMAIN requests : \E i \in DOMAIN requests[k].ensured :
        LET e == requests[k].ensured[i]
        IN  /\ e.update
            /\ e.currentSubjects # <<>>
            /\ Range(e.subjects) \ Range(e.currentSubjects) # {}
            /\ requests[k].pc = "done"
            /\ streamSubjects = e.sent[1].subjects
\* C33: a start$ that has ended told its observer either one value and then
\* completion, or one error, and a start$ still running has told it nothing;
\* createStream is entered only by a start$ that was given a stream name and
\* a non-empty subjects array, and only with the connection established.
C33_OneOutcomeAndGuardedProvisioning ==
    \A i \in DOMAIN provisions :
        provisions[i].caller = "start" =>
            /\ provisions[i].pc \in {"returned", "connected"} =>
                    provisions[i].notifications = <<"next", "complete">>
            /\ provisions[i].pc = "failed" => provisions[i].notifications = <<"error">>
            /\ provisions[i].pc \in {"connecting", "info", "add"} =>
                    provisions[i].notifications = <<>>
            /\ provisions[i].pc \in {"info", "add", "returned"} =>
                    /\ provisions[i].name # ""
                    /\ provisions[i].subjects # <<>>
                    /\ connection = "open"
            /\ provisions[i].pc \in {"connecting", "failed", "connected"} =>
                    provisions[i].calls = <<>>

\* C33 witness: one start$ failed to connect and reported the error; the next
\* one connected, created its stream and reported success.
C33_Witness ==
    \E i \in DOMAIN provisions : \E j \in DOMAIN provisions :
        /\ provisions[i].caller = "start" /\ provisions[j].caller = "start"
        /\ provisions[i].pc = "failed"
        /\ provisions[i].notifications = <<"error">>
        /\ provisions[j].pc = "returned"
        /\ provisions[j].calls = <<"info", "add">>
        /\ provisions[j].notifications = <<"next", "complete">>
\* C34: for every subject in listeningSubjects, the ready$ that
\* subscriptionReady holds for the subject has emitted.
C34_ListeningImpliesReady ==
    \A s \in ListenableSubjects :
        Includes(listeningSubjects, s) => subscriptionReady[s] \in readyFired
\* C35: every subject in listeningSubjects has a consume loop that has not
\* ended.
C35_ListeningImpliesLiveLoop ==
    \A s \in Range(listeningSubjects) :
        \E t \in DOMAIN tasks :
            /\ tasks[t].subject = s
            /\ loops[t].state \in {"running", "blocked"}

\* C36: unacknowledgedCount is 0 whenever no loop is between the increment
\* and the decrement of its body. The body has no await between the two, so
\* that is every state between two steps.
C36_CounterBalanced == unacknowledgedCount = 0
\* C37: no listener view has been ended by a value of the channel: a view
\* that was live stays live whatever is broadcast.
C37_BroadcastNeverEndsView ==
    [][\A c \in Listeners :
          listeners[c].pc = "live" => listeners'[c].pc = "live"]_vars
\* The rules of the metadata call `call` was answered with that apply to its
\* company and are in force at the time of the selection.
Eligible(call) ==
    {i \in DOMAIN call.metadata :
        LET br == call.metadata[i]
        IN  /\ br.companyIds = <<>> \/ call.for[3] \in Range(br.companyIds)
            /\ br.fromDateTime <= call.at
            /\ br.toDateTime = NoTime \/ br.toDateTime >= call.at}

\* The eligible rules with an end when there is one, else all of them.
Preferred(call) ==
    LET ending == {i \in Eligible(call) : call.metadata[i].toDateTime # NoTime}
    IN  IF ending # {} THEN ending ELSE Eligible(call)

\* Call c has gone through the selection.
Selected(c) == engine.calls[c].at # NoTime

RECURSIVE NotAfter(_, _)
NotAfter(a, b) ==
    \/ a = <<>>
    \/ a[1] < b[1]
    \/ a[1] = b[1] /\ NotAfter(Tail(a), Tail(b))

\* The two counter bytes of a buffer, as a number.
CounterOf(buffer) == 256 * buffer[7] + buffer[8]

\* C39: the counter of a UniqueId is within 0..0xFFFE and every generate
\* call sets it to the previous value plus 1 modulo 0xFFFF and writes it to
\* the id; an id generated fewer than 65535 calls after the first, with the
\* same timestamp, differs from the first; every id lies between the min and
\* max of the instance's getRange for the same time.
C39_UniqueIdCounter ==
    /\ [](/\ uniqueId.index \in 0..65534
          /\ uniqueId.generated >= 1 =>
                /\ CounterOf(uniqueId.last) = uniqueId.index
                /\ NotAfter(uniqueId.range[1], uniqueId.last)
                /\ NotAfter(uniqueId.last, uniqueId.range[2])
          /\ (/\ uniqueId.generated \in 2..65535
              /\ SubSeq(uniqueId.last, 1, 4) = SubSeq(uniqueId.first, 1, 4)) =>
                uniqueId.last # uniqueId.first)
    /\ [][uniqueId'.generated # uniqueId.generated =>
              uniqueId'.index = (uniqueId.index + 1) % 65535]_vars

\* C39 witness: the first generate call took the counter from 0xFFFE round
\* to 0, and the next call for the same time gave another id, within the
\* range of the instance.
C39_Witness ==
    /\ uniqueId.generated = 2
    /\ CounterOf(uniqueId.first) = 0
    /\ SubSeq(uniqueId.last, 1, 4) = SubSeq(uniqueId.first, 1, 4)
    /\ uniqueId.last # uniqueId.first
    /\ NotAfter(uniqueId.range[1], uniqueId.last)
    /\ NotAfter(uniqueId.last, uniqueId.range[2])
====
